---------------------------- MODULE Spec2Model ----------------------------
(***************************************************************************)
(* Conversational slot filling of the travel chat application:            *)
(*   - conversation-context.ts : the stored context and mergeContext      *)
(*   - llm-intent-classifier.ts: classifyIntentWithLLM, mergeParams       *)
(*   - smart-chat-handler.ts   : handleSmartChat and its handlers         *)
(*   - app/api/chat/v2/route.ts: POST /api/chat/v2                        *)
(*   - app/api/chat/route.ts   : POST /api/chat                           *)
(*   - intent-classifier.ts    : classifyIntent (pattern classifier)      *)
(*                                                                         *)
(* JavaScript values are modelled as strings: NULL stands for null and    *)
(* undefined, EMPTY for the empty string, numbers are written as          *)
(* numerals ("0", "1", "2").  A value is falsy when it is NULL, EMPTY or  *)
(* "0"; `a || b' is Or(a, b).                                             *)
(***************************************************************************)
EXTENDS Naturals, Sequences, FiniteSets, TLC

VARIABLES
    db,     \* the conversation_context row of each conversation id
    turn,   \* what the last request handled by a route did
    call    \* a call of a pure function: its arguments and its result

vars == <<db, turn, call>>

NULL  == "<null>"
EMPTY == ""

Falsy(v)  == v \in {NULL, EMPTY, "0"}
Truthy(v) == ~Falsy(v)
Or(a, b)  == IF Truthy(a) THEN a ELSE b

(***************************************************************************)
(* conversation-context.ts                                                 *)
(***************************************************************************)

\* The slot fields of a ConversationContext that mergeContext merges.
SlotFields ==
    {"intent", "origin", "destination", "departure_date", "return_date",
     "passengers", "check_in", "check_out", "rooms"}

CtxFields == SlotFields \cup {"chat_id", "user_id", "metadata"}

\* getConversationContext's null: no row, or the read failed.
NoContext == [missing |-> TRUE]

\* A Partial<ConversationContext> that gives no field.
NoFields == [f \in CtxFields |-> NULL]

mergeContextTruthyClears(existing, newContext) ==
    IF existing = NoContext
    THEN [newContext EXCEPT !["chat_id"] = IF @ = NULL THEN EMPTY ELSE @]
    ELSE [f \in CtxFields |->
            IF f \in SlotFields THEN newContext[f]
            ELSE IF f = "metadata"
                 THEN (IF newContext[f] = NULL THEN existing[f] ELSE newContext[f])
                 ELSE existing[f]]

\* mergeContext(existing, newContext).  metadata holds one key here, so the
\* spread of the two metadata objects is the new one when it is given.
mergeContext(existing, newContext) ==
    IF existing = NoContext
    THEN [newContext EXCEPT !["chat_id"] = IF @ = NULL THEN EMPTY ELSE @]
    ELSE [f \in CtxFields |->
            IF f \in SlotFields THEN Or(newContext[f], existing[f])
            ELSE IF f = "metadata"
                 THEN (IF newContext[f] = NULL THEN existing[f] ELSE newContext[f])
                 ELSE existing[f]]

(***************************************************************************)
(* Inputs of the mergeContext check.                                       *)
(***************************************************************************)

\* How many slot fields the new context of one merge gives.
MaxNewFields == 2

\* The values a slot field of a stored context takes in the merge check.
StoredValue(f) ==
    CASE f = "intent"                    -> "flight"
      [] f \in {"origin"}                -> "delhi"
      [] f \in {"destination"}           -> "goa"
      [] f \in {"passengers", "rooms"}   -> "2"
      [] OTHER                           -> "2026-01-15"

\* The values a new context gives for a slot field: a falsy one and a
\* truthy one that differs from the stored one.
NewValues(f) ==
    CASE f = "intent"                    -> {"hotel"}
      [] f \in {"origin", "destination"} -> {EMPTY, "pune"}
      [] f \in {"passengers", "rooms"}   -> {"0", "3"}
      [] OTHER                           -> {EMPTY, "2026-02-20"}

MergeExisting ==
    {[f \in CtxFields |->
        IF f \in SlotFields THEN (IF f \in S THEN StoredValue(f) ELSE NULL)
        ELSE IF f = "chat_id" THEN "c1" ELSE NULL] : S \in SUBSET SlotFields}

MergeNew ==
    UNION {
      {[f \in CtxFields |->
          IF f \in S THEN g[f] ELSE IF f = "chat_id" THEN "c1" ELSE NULL] :
          g \in [S -> UNION {NewValues(x) : x \in S}]}
      : S \in {T \in SUBSET SlotFields : Cardinality(T) <= MaxNewFields}}

MergeNewOk(n) == \A f \in SlotFields : n[f] = NULL \/ n[f] \in NewValues(f)

NoCall == [fn |-> "none"]

InitMerge ==
    /\ db = [c \in {"c1"} |-> NoContext]
    /\ turn = [route |-> "none"]
    /\ \E e \in MergeExisting, n \in MergeNew :
         /\ MergeNewOk(n)
         /\ call = [fn |-> "mergeContext", existing |-> e, newContext |-> n,
                    done |-> FALSE, result |-> NoFields]

CallMergeContext ==
    /\ call.fn = "mergeContext"
    /\ ~call.done
    /\ call' = [call EXCEPT !.done = TRUE,
                            !.result = mergeContext(call.existing, call.newContext)]
    /\ UNCHANGED <<db, turn>>

NextMerge == CallMergeContext

SpecMerge == InitMerge /\ [][NextMerge]_vars

IntentTypes ==
    {"BOOKING_FLIGHT", "BOOKING_HOTEL", "INFO_ITINERARY", "INFO_DESTINATION",
     "INFO_GENERAL", "ANSWER_FOLLOWUP", "GENERAL"}

\* The fields of ExtractedParams.
ParamFields ==
    {"origin", "destination", "departureDate", "returnDate", "travelers",
     "cabinClass", "checkIn", "checkOut", "nights"}

\* An ExtractedParams object with no field set: {}.
NoParams == [f \in ParamFields |-> NULL]

\* The fields the classification prompt asks the model for.
LlmFields == {"origin", "destination", "departureDate", "checkIn", "travelers", "nights"}

\* getMissingParams(intent, params)
getMissingParams(intent, params) ==
    IF intent = "BOOKING_FLIGHT"
    THEN SelectSeq(<<"origin", "destination", "departureDate">>,
                   LAMBDA p : Falsy(params[p]))
    ELSE IF intent = "BOOKING_HOTEL"
    THEN SelectSeq(<<"destination", "checkIn">>, LAMBDA p : Falsy(params[p]))
    ELSE <<>>

\* getFollowUpQuestion(param, intent)
getFollowUpQuestion(param, intent) ==
    CASE param = "origin"        -> "Where will you be traveling from?"
      [] param = "destination"   -> IF intent = "BOOKING_HOTEL"
                                    THEN "Which city would you like to stay in?"
                                    ELSE "Where would you like to go?"
      [] param = "departureDate" -> "When would you like to travel? (e.g., '15 Jan 2026')"
      [] param = "checkIn"       -> "When would you like to check in?"
      [] OTHER                   -> "Could you provide more details?"

\* fallbackClassify(message): the message is the set of keyword groups its
\* text matches; the groups are tried in the order of the if-else chain.
fallbackClassify(message) ==
    [type |-> IF "flight" \in message.keywords THEN "BOOKING_FLIGHT"
              ELSE IF "hotel" \in message.keywords THEN "BOOKING_HOTEL"
              ELSE IF "itinerary" \in message.keywords THEN "INFO_ITINERARY"
              ELSE IF "places" \in message.keywords THEN "INFO_DESTINATION"
              ELSE "GENERAL",
     params |-> NoParams,
     missingParams |-> <<>>,
     followUpQuestion |-> NULL]

\* Line 89 of classifyIntentWithLLM: the client is constructed before the
\* try block, and the constructor throws when OPENAI_API_KEY is not set.
ClientConstructionThrows(llm) == llm.outcome = "nokey"

\* classifyIntentWithLLM(message, previousContext), lines 91-159, with a
\* client.  llm is what the completion request did: it failed, it answered
\* without JSON, or it answered with the analysis llm.analysis (an intent
\* and params).  The previous context only goes into the prompt.
classifyIntentWithLLM(message, llm) ==
    IF llm.outcome # "ok"
    THEN fallbackClassify(message)
    ELSE LET analysis == llm.analysis
             missingParams == getMissingParams(analysis.intent, analysis.params)
         IN  [type |-> analysis.intent,
              params |-> [f \in ParamFields |->
                            IF f \in LlmFields /\ Truthy(analysis.params[f])
                            THEN analysis.params[f] ELSE NULL],
              missingParams |-> missingParams,
              followUpQuestion |->
                  IF Len(missingParams) > 0
                  THEN getFollowUpQuestion(missingParams[1], analysis.intent)
                  ELSE NULL]

mergeParamsNewOnly(existing, newParams) ==
    [f \in ParamFields |-> IF f = "cabinClass" THEN NULL ELSE newParams[f]]

\* mergeParams(existing, newParams); an undefined existing is NoParams.
mergeParams(existing, newParams) ==
    [f \in ParamFields |->
        IF f = "cabinClass" THEN NULL ELSE Or(newParams[f], existing[f])]


(***************************************************************************)
(* smart-chat-handler.ts                                                   *)
(*                                                                         *)
(* env says what each external call does when it is made:                  *)
(*   env.amadeus   outcome "error", or "ok" with the number of offers      *)
(*   env.tavilyKey whether TAVILY_API_KEY is set                           *)
(*   env.tavily    "error", "answer" (an answer and results) or "results"  *)
(*   env.openai    "error", "text" or "empty" (a completion with no text)  *)
(* A response also records the handler that built it, the params that     *)
(* handler received and the external calls made (handler, handlerParams,  *)
(* calls).                                                                 *)
(***************************************************************************)

\* What a handler that takes no params received as params.
NotPassed == [notPassed |-> TRUE]

\* searchResults left undefined.
NoResults == [type |-> "none", n |-> 0]

Results(type, n) == [type |-> type, n |-> n]

Min(a, b) == IF a <= b THEN a ELSE b

\* The number of web results of a successful Tavily search.
TavilyResultCount == 2

ChatResponse(message, intent, state, needsMoreInfo, pendingQuestion, searchResults, webSources, handler, calls) ==
    [rejected |-> FALSE, message |-> message, intent |-> intent, state |-> state,
     needsMoreInfo |-> needsMoreInfo, pendingQuestion |-> pendingQuestion,
     searchResults |-> searchResults, webSources |-> webSources,
     handler |-> handler, handlerParams |-> state, calls |-> calls]

\* getQuestion(param)
getQuestion(param) ==
    CASE param = "origin"        -> "Where will you be traveling from?"
      [] param = "destination"   -> "Where would you like to go?"
      [] param = "departureDate" -> "When would you like to travel? (e.g., '15 Jan 2026')"
      [] param = "checkIn"       -> "When would you like to check in? (e.g., '15 Jan 2026')"
      [] OTHER                   -> "Could you provide more details?"

\* transformFlightResults(data, params): at most five offers.
transformFlightResults(offers) == Results("flight", Min(offers, 5))

\* generateFallbackFlights(params): four flights.
generateFallbackFlights == Results("flight", 4)

\* generateHotelResults(destination): five hotels.
generateHotelResults == Results("hotel", 5)

RequiredFlight == <<"origin", "destination", "departureDate">>
RequiredHotel  == <<"destination", "checkIn">>

StillMissing(required, params) == SelectSeq(required, LAMBDA p : Falsy(params[p]))

handleFlightBookingSearchesAnyway(params, missingParams, followUpQuestion, env) ==
    IF Falsy(params["origin"]) /\ Falsy(params["destination"])
    THEN ChatResponse(<<getQuestion("origin")>>, "BOOKING_FLIGHT", params, TRUE,
                      getQuestion("origin"), NoResults, NULL,
                      "handleFlightBooking", {})
    ELSE ChatResponse(<<"Here are flights">>, "BOOKING_FLIGHT", params, FALSE, NULL,
                      generateFallbackFlights, NULL,
                      "handleFlightBooking", {"amadeus"})

handleFlightBookingAsksClassifier(params, missingParams, followUpQuestion, env) ==
    LET stillMissing == StillMissing(RequiredFlight, params)
        question == Or(followUpQuestion, getQuestion(stillMissing[1]))
    IN  IF Len(stillMissing) > 0
        THEN ChatResponse(<<question>>, "BOOKING_FLIGHT", params, TRUE, question,
                          NoResults, NULL, "handleFlightBooking", {})
        ELSE ChatResponse(<<"Here are flights">>, "BOOKING_FLIGHT", params, FALSE, NULL,
                          generateFallbackFlights, NULL,
                          "handleFlightBooking", {"amadeus"})

\* handleFlightBooking(params, missingParams, followUpQuestion)
handleFlightBooking(params, missingParams, followUpQuestion, env) ==
    LET stillMissing == StillMissing(RequiredFlight, params)
        question == getQuestion(stillMissing[1])
    IN  IF Len(stillMissing) > 0
        THEN ChatResponse(<<question>>, "BOOKING_FLIGHT", params, TRUE, question,
                          NoResults, NULL, "handleFlightBooking", {})
        ELSE IF env.amadeus.outcome # "error"
        THEN ChatResponse(<<"Here are flights">>, "BOOKING_FLIGHT", params, FALSE, NULL,
                          transformFlightResults(env.amadeus.offers), NULL,
                          "handleFlightBooking", {"amadeus"})
        ELSE ChatResponse(<<"I found flights">>, "BOOKING_FLIGHT", params, FALSE, NULL,
                          generateFallbackFlights, NULL,
                          "handleFlightBooking", {"amadeus"})

\* handleHotelBooking(params, missingParams, followUpQuestion)
handleHotelBooking(params, missingParams, followUpQuestion, env) ==
    LET stillMissing == StillMissing(RequiredHotel, params)
        question == getQuestion(stillMissing[1])
    IN  IF Len(stillMissing) > 0
        THEN ChatResponse(<<"Looking for hotels", question>>, "BOOKING_HOTEL", params,
                          TRUE, question, NoResults, NULL, "handleHotelBooking", {})
        ELSE ChatResponse(<<"Here are the best hotels">>, "BOOKING_HOTEL", params,
                          FALSE, NULL, generateHotelResults, NULL,
                          "handleHotelBooking", {})

\* handleItinerary(message, params, history)
handleItinerary(message, params, env) ==
    IF Falsy(params["destination"])
    THEN ChatResponse(<<"Which destination would you like me to create an itinerary for?">>,
                      "INFO_ITINERARY", params, TRUE, "destination", NoResults, NULL,
                      "handleItinerary", {})
    ELSE LET calls == (IF env.tavilyKey THEN {"tavily"} ELSE {}) \cup {"openai"}
         IN  IF env.openai = "error"
             THEN ChatResponse(<<"I'd recommend days in">>, "INFO_ITINERARY", params,
                               FALSE, NULL, NoResults, NULL, "handleItinerary", calls)
             ELSE ChatResponse(IF env.openai = "text" THEN <<"completion">>
                               ELSE <<"Here's a day plan for">>,
                               "INFO_ITINERARY", params, FALSE, NULL, NoResults, NULL,
                               "handleItinerary", calls)

\* handleDestinationInfo(message, params)
handleDestinationInfo(message, params, env) ==
    IF Falsy(params["destination"])
    THEN ChatResponse(<<"Which destination would you like to know about?">>,
                      "INFO_DESTINATION", params, TRUE, NULL, NoResults, NULL,
                      "handleDestinationInfo", {})
    ELSE LET searched == env.tavilyKey /\ env.tavily # "error"
             webSources == IF searched THEN TavilyResultCount ELSE 0
             answered == searched /\ env.tavily = "answer"
         IN  ChatResponse(IF answered THEN <<"answer">> ELSE <<"Here's what I found about">>,
                          "INFO_DESTINATION", params, FALSE, NULL,
                          Results("info", Min(webSources, 3)), webSources,
                          "handleDestinationInfo",
                          IF env.tavilyKey THEN {"tavily"} ELSE {})

\* handleGeneralInfo(message, params)
handleGeneralInfo(message, params, env) ==
    [handleDestinationInfo(message, params, env) EXCEPT !.handler = "handleGeneralInfo"]

\* handleGeneral(message, history)
handleGeneral(message, env) ==
    [ChatResponse(IF env.openai = "text" THEN <<"completion">>
                  ELSE IF env.openai = "empty" THEN <<"How can I help with your travel plans?">>
                  ELSE <<"I'm here to help with your travel plans!">>,
                  "GENERAL", NoParams, FALSE, NULL, NoResults, NULL,
                  "handleGeneral", {"openai"})
     EXCEPT !.handlerParams = NotPassed]

\* The existingState of a request with no stored context: {}.
EmptyState == [lastIntent |-> NULL, pendingQuestion |-> NULL,
               hasParams |-> FALSE, params |-> NoParams]

IsBooking(intent) == intent \in {"BOOKING_FLIGHT", "BOOKING_HOTEL", "BOOKING_TRIP"}
IsInfo(intent) == intent \in {"INFO_ITINERARY", "INFO_DESTINATION", "INFO_GENERAL"}

\* Step 3 of handleSmartChat: the switch on the final intent.
RouteIntent(finalIntent, finalParams, message, classified, env) ==
    CASE finalIntent = "BOOKING_FLIGHT" ->
            handleFlightBooking(finalParams, <<>>, classified.followUpQuestion, env)
      [] finalIntent = "BOOKING_HOTEL" ->
            handleHotelBooking(finalParams, classified.missingParams,
                               classified.followUpQuestion, env)
      [] finalIntent = "INFO_ITINERARY" -> handleItinerary(message, finalParams, env)
      [] finalIntent = "INFO_DESTINATION" -> handleDestinationInfo(message, finalParams, env)
      [] finalIntent = "INFO_GENERAL" -> handleGeneralInfo(message, finalParams, env)
      [] OTHER -> handleGeneral(message, env)

\* The params handed to the handler when the message is not the answer to a
\* follow-up question (lines 113-127): the stored destination is kept when
\* the intent family changes, nothing is kept when it does not.
PreserveContext(existingState, classified) ==
    LET sameIntentType ==
            \/ IsBooking(existingState.lastIntent) /\ IsBooking(classified.type)
            \/ IsInfo(existingState.lastIntent) /\ IsInfo(classified.type)
    IN  IF /\ existingState.hasParams
           /\ ~sameIntentType
           /\ Truthy(existingState.params["destination"])
           /\ Falsy(classified.params["destination"])
        THEN [classified.params EXCEPT !["destination"] =
                                          existingState.params["destination"]]
        ELSE classified.params

\* What a call of handleSmartChat is when the promise rejects.
Rejected == [rejected |-> TRUE, calls |-> {}, handler |-> NULL]

handleSmartChatResumeFresh(message, existingState, llm, env) ==
    LET classified == classifyIntentWithLLM(message, llm)
    IN  IF ClientConstructionThrows(llm)
        THEN Rejected
        ELSE IF classified.type = "ANSWER_FOLLOWUP"
        THEN IF Truthy(existingState.lastIntent)
             THEN [RouteIntent(existingState.lastIntent, classified.params,
                               message, classified, env)
                   EXCEPT !.calls = @ \cup {"llm"}]
             ELSE [ChatResponse(<<"I noticed you provided some details!">>, "GENERAL",
                                classified.params, TRUE, NULL, NoResults, NULL,
                                NULL, {"llm"})
                   EXCEPT !.handlerParams = NotPassed]
        ELSE [RouteIntent(classified.type, PreserveContext(existingState, classified),
                          message, classified, env)
              EXCEPT !.calls = @ \cup {"llm"}]

\* handleSmartChat(message, history, existingState): the classification is
\* awaited outside any try block, so an exception of classifyIntentWithLLM
\* rejects the promise.
handleSmartChat(message, existingState, llm, env) ==
    LET classified == classifyIntentWithLLM(message, llm)
    IN  IF ClientConstructionThrows(llm)
        THEN Rejected
        ELSE IF classified.type = "ANSWER_FOLLOWUP"
        THEN IF Truthy(existingState.lastIntent)
             THEN [RouteIntent(existingState.lastIntent,
                               mergeParams(existingState.params, classified.params),
                               message, classified, env)
                   EXCEPT !.calls = @ \cup {"llm"}]
             ELSE [ChatResponse(<<"I noticed you provided some details!">>, "GENERAL",
                                classified.params, TRUE, NULL, NoResults, NULL,
                                NULL, {"llm"})
                   EXCEPT !.handlerParams = NotPassed]
        ELSE [RouteIntent(classified.type, PreserveContext(existingState, classified),
                          message, classified, env)
              EXCEPT !.calls = @ \cup {"llm"}]


(***************************************************************************)
(* The conversation_context table, as the routes use it.                   *)
(***************************************************************************)

\* The conversation ids whose rows the model follows.
ChatIds == {"c1"}

\* The id generated for a request that carries none: an id that has no row.
FreshChatId(table) ==
    IF \E c \in ChatIds : table[c] = NoContext
    THEN CHOOSE c \in ChatIds : table[c] = NoContext
    ELSE "chat-fresh"

\* getConversationContext(chatId): the row, or null when there is none or
\* the read fails (every error is caught and logged).
getConversationContext(table, chatId, outcome) ==
    IF outcome = "ok" /\ chatId \in ChatIds THEN table[chatId] ELSE NoContext

\* The row saveConversationContext upserts for a context.
UpsertData(context) ==
    [chat_id        |-> context["chat_id"],
     user_id        |-> Or(context["user_id"], NULL),
     intent         |-> Or(context["intent"], NULL),
     origin         |-> Or(context["origin"], NULL),
     destination    |-> Or(context["destination"], NULL),
     departure_date |-> Or(context["departure_date"], NULL),
     return_date    |-> Or(context["return_date"], NULL),
     passengers     |-> Or(context["passengers"], "1"),
     check_in       |-> Or(context["check_in"], NULL),
     check_out      |-> Or(context["check_out"], NULL),
     rooms          |-> Or(context["rooms"], "1"),
     metadata       |-> context["metadata"]]

\* saveConversationContext(context): the table after the upsert on chat_id;
\* a failed upsert is caught and logged and changes nothing.
saveConversationContext(table, context, outcome) ==
    IF outcome = "ok" /\ context["chat_id"] \in ChatIds
    THEN [table EXCEPT ![context["chat_id"]] = UpsertData(context)]
    ELSE table

(***************************************************************************)
(* app/api/chat/v2/route.ts                                                *)
(***************************************************************************)

\* mapIntentToDbFormat(intent)
mapIntentToDbFormat(intent) ==
    CASE intent = "BOOKING_FLIGHT"   -> "flight"
      [] intent = "BOOKING_HOTEL"    -> "hotel"
      [] intent = "BOOKING_TRIP"     -> "trip"
      [] intent = "INFO_DESTINATION" -> "info"
      [] intent = "INFO_ITINERARY"   -> "itinerary"
      [] intent = "INFO_GENERAL"     -> "info"
      [] OTHER                       -> "general"

\* mapDbIntentToType(dbIntent)
mapDbIntentToType(dbIntent) ==
    CASE dbIntent = "flight"    -> "BOOKING_FLIGHT"
      [] dbIntent = "hotel"     -> "BOOKING_HOTEL"
      [] dbIntent = "trip"      -> "BOOKING_FLIGHT"
      [] dbIntent = "info"      -> "INFO_DESTINATION"
      [] dbIntent = "itinerary" -> "INFO_ITINERARY"
      [] dbIntent = "general"   -> "GENERAL"
      [] OTHER                  -> NULL

\* Lines 53-69 of POST: the existing state of a stored context.
ExistingStateOf(dbContext) ==
    IF dbContext = NoContext THEN EmptyState
    ELSE [lastIntent |-> mapDbIntentToType(dbContext["intent"]),
          pendingQuestion |-> dbContext["metadata"],
          hasParams |-> TRUE,
          params |->
             [NoParams EXCEPT
                !["origin"]        = Or(dbContext["origin"], NULL),
                !["destination"]   = Or(dbContext["destination"], NULL),
                !["departureDate"] = Or(dbContext["departure_date"], NULL),
                !["returnDate"]    = Or(dbContext["return_date"], NULL),
                !["travelers"]     = Or(dbContext["passengers"], NULL),
                !["checkIn"]       = Or(dbContext["check_in"], NULL),
                !["checkOut"]      = Or(dbContext["check_out"], NULL)]]

LoadExistingStateUncaught(table, conversationId, outcome) ==
    IF Truthy(conversationId) /\ outcome = "error"
    THEN [threw |-> TRUE, state |-> EmptyState]
    ELSE [threw |-> FALSE,
          state |-> ExistingStateOf(IF Truthy(conversationId)
                                    THEN getConversationContext(table, conversationId, outcome)
                                    ELSE NoContext)]

\* Lines 43-73 of POST: the existing state loaded for the request; a failed
\* read is a request with no stored context.
LoadExistingState(table, conversationId, outcome) ==
    [threw |-> FALSE,
     state |-> ExistingStateOf(IF Truthy(conversationId)
                               THEN getConversationContext(table, conversationId, outcome)
                               ELSE NoContext)]

\* Lines 85-100 of POST: the context saved for a response.
contextToSave(chatId, response) ==
    [chat_id        |-> chatId,
     user_id        |-> NULL,
     intent         |-> mapIntentToDbFormat(response.intent),
     origin         |-> Or(response.state["origin"], NULL),
     destination    |-> Or(response.state["destination"], NULL),
     departure_date |-> Or(response.state["departureDate"], NULL),
     return_date    |-> Or(response.state["returnDate"], NULL),
     passengers     |-> Or(response.state["travelers"], "1"),
     check_in       |-> Or(response.state["checkIn"], NULL),
     check_out      |-> Or(response.state["checkOut"], NULL),
     rooms          |-> "1",
     metadata       |-> response.pendingQuestion]


(***************************************************************************)
(* Inputs of handleSmartChat: what the classification request and the     *)
(* other external calls do, and the existing states the route passes.     *)
(***************************************************************************)

\* How many params the analysis of one message extracts.
MaxExtracted == 2

\* How many params of an earlier response a stored context holds.
MaxStored == 2

\* The largest number of offers a flight search returns.
MaxOffers == 6

LlmValues(f) ==
    CASE f = "origin"        -> {"delhi", "pune"}
      [] f = "destination"   -> {"goa"}
      [] f = "departureDate" -> {"2026-01-15"}
      [] f = "checkIn"       -> {"2026-01-20"}
      [] f = "travelers"     -> {"2"}
      [] OTHER               -> {"3"}

\* The params objects that give at most n of the fields of `fields'.
ParamsOf(fields, n) ==
    UNION {
      {[f \in ParamFields |-> IF f \in S THEN g[f] ELSE NULL] :
          g \in {h \in [S -> UNION {LlmValues(x) : x \in S}] :
                    \A x \in S : h[x] \in LlmValues(x)}}
      : S \in {T \in SUBSET fields : Cardinality(T) <= n}}

\* The params of an analysis.
AnalysisParams == ParamsOf(LlmFields, MaxExtracted)

\* The classification without an API key: no request is made.
NoKey == [outcome |-> "nokey", analysis |-> [intent |-> NULL, params |-> NoParams]]

\* What the classification does: the key is not set, or the request fails,
\* answers without JSON, or answers with an analysis.
LlmOutcomes ==
    {NoKey}
    \cup {[outcome |-> o, analysis |-> [intent |-> NULL, params |-> NoParams]] :
            o \in {"error", "nojson"}}
    \cup {[outcome |-> "ok", analysis |-> [intent |-> i, params |-> p]] :
            i \in IntentTypes, p \in AnalysisParams}

\* The keyword groups of fallbackClassify a message matches.
KeywordSets ==
    {{}, {"flight"}, {"hotel"}, {"itinerary"}, {"places"},
     {"flight", "hotel"}, {"hotel", "places"}, {"itinerary", "places"}}

TextMessage(keywords) == [kind |-> "text", keywords |-> keywords]

\* The environment in which every call that is made succeeds.
AllOkEnv == [amadeus |-> [outcome |-> "ok", offers |-> 1], tavilyKey |-> TRUE,
             tavily |-> "answer", openai |-> "text"]

\* The environments that differ in what the calls of `calls' do.
Envs(calls) ==
    {env \in
       [amadeus : IF "amadeus" \in calls
                  THEN {[outcome |-> "error", offers |-> 0]}
                       \cup {[outcome |-> "ok", offers |-> n] : n \in {0, 2, MaxOffers}}
                  ELSE {[outcome |-> "unused", offers |-> 0]},
        tavilyKey : IF "tavily" \in calls THEN BOOLEAN ELSE {FALSE},
        tavily : IF "tavily" \in calls THEN {"unused", "error", "answer", "results"}
                 ELSE {"unused"},
        openai : IF "openai" \in calls THEN {"error", "text", "empty"} ELSE {"unused"}] :
       env.tavilyKey <=> env.tavily # "unused"}

\* The responses an earlier turn may have saved: an intent, the question
\* asked and at most MaxStored params.
StoredRows ==
    {UpsertData(contextToSave("c1", [intent |-> i, state |-> p, pendingQuestion |-> NULL])) :
        i \in IntentTypes \ {"ANSWER_FOLLOWUP"},
        p \in ParamsOf(LlmFields \ {"nights"}, MaxStored)}

ExistingStates == {EmptyState} \cup {ExistingStateOf(row) : row \in StoredRows}

InitHandler ==
    /\ db = [c \in ChatIds |-> NoContext]
    /\ turn = [route |-> "none"]
    /\ \E existingState \in ExistingStates, llm \in LlmOutcomes, keywords \in KeywordSets :
         /\ llm.outcome \in {"ok", "nokey"} => keywords = {}
         /\ call = [fn |-> "handleSmartChat", message |-> TextMessage(keywords),
                    existingState |-> existingState, llm |-> llm,
                    classified |-> IF ClientConstructionThrows(llm) THEN NULL
                                   ELSE classifyIntentWithLLM(TextMessage(keywords), llm),
                    done |-> FALSE]

\* handleSmartChat(message, history, existingState) in one environment.
CallHandleSmartChat ==
    /\ call.fn = "handleSmartChat"
    /\ ~call.done
    /\ LET probe == handleSmartChat(call.message, call.existingState, call.llm, AllOkEnv)
       IN  \E env \in Envs(probe.calls) :
             call' = [fn |-> "handleSmartChat", message |-> call.message,
                      existingState |-> call.existingState, llm |-> call.llm,
                      classified |-> call.classified, done |-> TRUE, env |-> env,
                      result |-> handleSmartChat(call.message, call.existingState,
                                                 call.llm, env)]
    /\ UNCHANGED <<db, turn>>

NextHandler == CallHandleSmartChat

SpecHandler == InitHandler /\ [][NextHandler]_vars


(***************************************************************************)
(* Claims about handleSmartChat, checked under SpecHandler.                *)
(***************************************************************************)

Handled == call.fn = "handleSmartChat" /\ call.done

\* The call resolved with a ChatResponse.
Resolved == Handled /\ ~call.result.rejected

\* The first param of `required', in its order, that `params' lacks.
FirstMissing(required, params) ==
    required[CHOOSE i \in 1..Len(required) :
                /\ Falsy(params[required[i]])
                /\ \A j \in 1..(i - 1) : Truthy(params[required[j]])]

AnyMissing(required, params) ==
    \E i \in 1..Len(required) : Falsy(params[required[i]])

\* C3: a param held by the existing state and not extracted from the new
\* message is still held by the state of the response, whatever the intent.
C3_ExistingParamsKept ==
    (Resolved /\ call.existingState.hasParams) =>
        \A f \in ParamFields :
            (Truthy(call.existingState.params[f]) /\ Falsy(call.classified.params[f]))
                => call.result.state[f] = call.existingState.params[f]

\* C4: a booking handler searches exactly when no required param is
\* missing: with one missing it asks (needsMoreInfo, no searchResults, no
\* flight search), with none missing it answers with searchResults, and the
\* flight handler has called the flight search.
C4_SearchIffComplete ==
    (Resolved /\ call.result.handler \in {"handleFlightBooking", "handleHotelBooking"}) =>
        LET r == call.result
            required == IF r.handler = "handleFlightBooking"
                        THEN <<"origin", "destination", "departureDate">>
                        ELSE <<"destination", "checkIn">>
        IN  IF AnyMissing(required, r.handlerParams)
            THEN r.needsMoreInfo /\ r.searchResults = NoResults /\ "amadeus" \notin r.calls
            ELSE /\ ~r.needsMoreInfo
                 /\ r.searchResults # NoResults
                 /\ (r.handler = "handleFlightBooking" <=> "amadeus" \in r.calls)

\* A flight booking with every required param, answered from a flight search.
C4_Witness ==
    /\ Resolved
    /\ call.result.handler = "handleFlightBooking"
    /\ ~AnyMissing(<<"origin", "destination", "departureDate">>, call.result.handlerParams)
    /\ "amadeus" \in call.result.calls
    /\ call.result.searchResults = Results("flight", 2)

\* C5: the question of a booking response that asks is the question of the
\* first missing required param, in the order origin, destination,
\* departureDate (flights) and destination, checkIn (hotels); it is the
\* response's pendingQuestion, whatever the classifier's followUpQuestion.
C5_QuestionOfFirstMissing ==
    (/\ Resolved
     /\ call.result.handler \in {"handleFlightBooking", "handleHotelBooking"}
     /\ call.result.needsMoreInfo) =>
        LET r == call.result
            first == IF r.handler = "handleFlightBooking"
                     THEN FirstMissing(<<"origin", "destination", "departureDate">>,
                                       r.handlerParams)
                     ELSE FirstMissing(<<"destination", "checkIn">>, r.handlerParams)
            question ==
                CASE first = "origin" -> "Where will you be traveling from?"
                  [] first = "destination" -> "Where would you like to go?"
                  [] first = "departureDate" ->
                        "When would you like to travel? (e.g., '15 Jan 2026')"
                  [] first = "checkIn" ->
                        "When would you like to check in? (e.g., '15 Jan 2026')"
        IN  /\ r.pendingQuestion = question
            /\ r.message[Len(r.message)] = question

\* A flight booking that asks for the date although the classifier, which
\* did not see the stored destination, would have asked for the destination.
C5_Witness ==
    /\ Resolved
    /\ call.result.handler = "handleFlightBooking"
    /\ call.result.needsMoreInfo
    /\ call.classified.followUpQuestion = "Where would you like to go?"
    /\ call.classified.missingParams = <<"destination", "departureDate">>
    /\ call.result.pendingQuestion = "When would you like to travel? (e.g., '15 Jan 2026')"

\* C7: handleSmartChat never rejects: whatever external calls fail, it
\* resolves with a ChatResponse (a message and an intent).
C7_NeverRejects ==
    Handled =>
        /\ ~call.result.rejected
        /\ Len(call.result.message) > 0
        /\ call.result.intent \in IntentTypes

\* The handler of an intent.
HandlerOf(intent) ==
    CASE intent = "BOOKING_FLIGHT"   -> "handleFlightBooking"
      [] intent = "BOOKING_HOTEL"    -> "handleHotelBooking"
      [] intent = "INFO_ITINERARY"   -> "handleItinerary"
      [] intent = "INFO_DESTINATION" -> "handleDestinationInfo"
      [] intent = "INFO_GENERAL"     -> "handleGeneralInfo"
      [] OTHER                       -> "handleGeneral"

\* C9: an ANSWER_FOLLOWUP with a last intent runs the handler of the last
\* intent on the merged params (the extracted value, else the existing one;
\* handleGeneral takes no params); without a last intent no handler and no
\* search runs and the response is GENERAL with needsMoreInfo.
C9_FollowUpResumes ==
    (Resolved /\ call.classified.type = "ANSWER_FOLLOWUP") =>
        LET r == call.result
            e == call.existingState
        IN  IF Truthy(e.lastIntent)
            THEN /\ r.handler = HandlerOf(e.lastIntent)
                 /\ r.handler # "handleGeneral" =>
                       \A f \in ParamFields :
                          r.handlerParams[f] =
                              IF Truthy(call.classified.params[f])
                              THEN call.classified.params[f]
                              ELSE e.params[f]
            ELSE /\ r.handler = NULL
                 /\ r.calls = {"llm"}
                 /\ r.intent = "GENERAL"
                 /\ r.needsMoreInfo

\* The date given as the answer to a flight booking's question completes
\* the stored origin and destination, and the flight search runs.
C9_Witness ==
    /\ Resolved
    /\ call.classified.type = "ANSWER_FOLLOWUP"
    /\ call.existingState.lastIntent = "BOOKING_FLIGHT"
    /\ call.existingState.params["origin"] = "delhi"
    /\ call.existingState.params["destination"] = "goa"
    /\ call.classified.params["origin"] = NULL
    /\ call.classified.params["departureDate"] = "2026-01-15"
    /\ call.result.handlerParams["origin"] = "delhi"
    /\ call.result.handlerParams["departureDate"] = "2026-01-15"
    /\ "amadeus" \in call.result.calls


(***************************************************************************)
(* POST /api/chat/v2 (app/api/chat/v2/route.ts), on the stored contexts.   *)
(***************************************************************************)

Analysis(intent, given) ==
    [outcome |-> "ok",
     analysis |-> [intent |-> intent,
                   params |-> [f \in ParamFields |->
                                 IF f \in DOMAIN given THEN given[f] ELSE NULL]]]

\* The messages of the conversations that are followed: what the
\* classification request answers for each (or that it fails, for a message
\* that matches the keyword groups given).
Conversation ==
    {[keywords |-> {"flight"},
      llm |-> [outcome |-> "error", analysis |-> [intent |-> NULL, params |-> NoParams]]],
     [keywords |-> {},
      llm |-> Analysis("BOOKING_FLIGHT", [origin |-> "delhi", destination |-> "goa"])],
     [keywords |-> {},
      llm |-> Analysis("BOOKING_FLIGHT", [origin |-> "pune"])],
     [keywords |-> {},
      llm |-> Analysis("ANSWER_FOLLOWUP", [departureDate |-> "2026-01-15"])],
     [keywords |-> {},
      llm |-> Analysis("BOOKING_HOTEL", [destination |-> "goa"])],
     [keywords |-> {},
      llm |-> Analysis("ANSWER_FOLLOWUP", [checkIn |-> "2026-01-20"])],
     [keywords |-> {},
      llm |-> Analysis("INFO_DESTINATION", [destination |-> "goa"])],
     [keywords |-> {},
      llm |-> Analysis("GENERAL", << >>)]}

InitSmart ==
    /\ db = [c \in ChatIds |-> NoContext]
    /\ turn = [route |-> "none"]
    /\ call = NoCall

\* POST /api/chat/v2 with a body that is not JSON (request.json() throws) or
\* that is the JSON null (the destructuring of line 25 throws).
PostV2BadJson ==
    /\ \E kind \in {"not-json", "null"} :
         turn' = [route |-> "v2", status |-> 500, body |-> kind]
    /\ UNCHANGED <<db, call>>

PostV2NoMessageAfterSave ==
    /\ \E kind \in {"missing", "empty", "nonstring"} :
         turn' = [route |-> "v2", status |-> 400, body |-> kind]
    /\ db' = saveConversationContext(db, contextToSave("c1", handleGeneral(TextMessage({}), AllOkEnv)),
                                     "ok")
    /\ UNCHANGED call

\* POST /api/chat/v2 with a JSON object whose message is missing, empty or
\* not a string: lines 27-32 answer before anything else is done.
PostV2NoMessage ==
    /\ \E kind \in {"missing", "empty", "nonstring"} :
         turn' = [route |-> "v2", status |-> 400, body |-> kind]
    /\ UNCHANGED <<db, call>>

\* Lines 109-117 of POST: the body of the 200 response.
ResponseJson(chatId, response) ==
    [message |-> response.message, conversationId |-> chatId,
     intent |-> response.intent, searchResults |-> response.searchResults,
     webSources |-> response.webSources, state |-> response.state,
     needsMoreInfo |-> response.needsMoreInfo]

\* POST /api/chat/v2 with a message: load the context, handle the message,
\* save the context of the response, answer; the catch of lines 119-125
\* answers 500 when the handler rejects.
PostV2 ==
    \E conversationId \in ChatIds \cup {NULL},
       loadOutcome \in {"ok", "error"},
       openaiKey \in BOOLEAN,
       m \in Conversation,
       saveOutcome \in {"ok", "error"} :
      LET message == TextMessage(m.keywords)
          llm == IF openaiKey THEN m.llm ELSE NoKey
          chatId == Or(conversationId, FreshChatId(db))
          loaded == LoadExistingState(db, conversationId, loadOutcome)
          probe == handleSmartChat(message, loaded.state, llm, AllOkEnv)
      IN  /\ conversationId = NULL => loadOutcome = "ok"
          /\ \E env \in Envs(probe.calls) :
               LET response == handleSmartChat(message, loaded.state, llm, env)
               IN  IF loaded.threw \/ response.rejected
                   THEN /\ turn' = [route |-> "v2", status |-> 500, body |-> "text",
                                    conversationId |-> conversationId,
                                    loadOutcome |-> loadOutcome,
                                    existingState |-> loaded.state,
                                    rejected |-> response.rejected]
                        /\ db' = db
                   ELSE /\ turn' = [route |-> "v2", status |-> 200, body |-> "text",
                                    conversationId |-> conversationId,
                                    chatId |-> chatId,
                                    loadOutcome |-> loadOutcome,
                                    existingState |-> loaded.state,
                                    rejected |-> FALSE,
                                    classified |-> classifyIntentWithLLM(message, llm),
                                    response |-> response,
                                    saveOutcome |-> saveOutcome,
                                    json |-> ResponseJson(chatId, response)]
                        /\ db' = saveConversationContext(
                                     db, contextToSave(chatId, response), saveOutcome)
          /\ UNCHANGED call

NextSmart == PostV2BadJson \/ PostV2NoMessage \/ PostV2

SpecSmart == InitSmart /\ [][NextSmart]_vars


(***************************************************************************)
(* Properties of POST /api/chat/v2, checked under SpecSmart.               *)
(***************************************************************************)

AnsweredV2 == turn.route = "v2" /\ turn.body = "text"

\* C8: no failure of the context store produces a 500: a request with a
\* message is answered 200 whenever handleSmartChat resolves, whatever the
\* store does.  When the read of the context fails the message is handled
\* with the empty existing state, and when the save fails the response of
\* the handler is what the route returns.
C8_StoreFailuresTolerated ==
    AnsweredV2 =>
       /\ turn.status = IF turn.rejected THEN 500 ELSE 200
       /\ turn.loadOutcome = "error" => turn.existingState = EmptyState
       /\ (turn.status = 200 /\ turn.saveOutcome = "error") =>
             turn.json = ResponseJson(turn.chatId, turn.response)

\* A conversation with a stored context whose read failed and whose save
\* failed: the request was answered 200 from the empty state and the row is
\* as it was.
C8_Witness ==
    /\ AnsweredV2
    /\ turn.status = 200
    /\ turn.conversationId = "c1"
    /\ turn.loadOutcome = "error"
    /\ turn.saveOutcome = "error"
    /\ turn.existingState = EmptyState
    /\ db["c1"] # NoContext
    /\ db["c1"]["origin"] = "delhi"

\* C16: a request to /api/chat/v2 whose message is missing, empty or not a
\* string is answered 400 and nothing else happens: no classification, no
\* read of the context (the answer holds the status only) and no write (the
\* table is as it was).
C16_NoMessageNoEffect ==
    [][(turn'.route = "v2" /\ turn'.body \in {"missing", "empty", "nonstring"}) =>
          /\ turn'.status = 400
          /\ DOMAIN turn' = {"route", "status", "body"}
          /\ db' = db]_vars

\* A request without a string message in a conversation that has a stored
\* flight from delhi: answered 400, the row is still there.
C16_Witness ==
    /\ turn.route = "v2"
    /\ turn.status = 400
    /\ turn.body = "nonstring"
    /\ db["c1"] # NoContext
    /\ db["c1"]["intent"] = "flight"
    /\ db["c1"]["origin"] = "delhi"

\* The slots of a stored context that a booking collects.
CollectedSlots == {"intent", "origin", "destination", "departure_date", "check_in"}

\* C10: a request of a conversation whose stored context is a booking, with a
\* message classified GENERAL, leaves the intent, the places and the dates of
\* the stored context as they were.
C10_GeneralKeepsContext ==
    [][(/\ turn'.route = "v2"
        /\ turn'.status = 200
        /\ turn'.conversationId = "c1"
        /\ turn'.loadOutcome = "ok"
        /\ turn'.classified.type = "GENERAL"
        /\ db["c1"] # NoContext
        /\ db["c1"]["intent"] \in {"flight", "hotel"})
       => \A f \in CollectedSlots : db'["c1"][f] = db["c1"][f]]_vars


(***************************************************************************)
(* intent-classifier.ts: the keyword classifier.                           *)
(*                                                                         *)
(* A message is what its text makes the regular expressions do:            *)
(*   matched    the intents one of whose patterns matches                  *)
(*   cities     the names of CITY_NAMES the text includes                  *)
(*   fromTo     the cities found in the two groups of "from X to Y"        *)
(*   toCity     the city found in the group of "to|in|visit X"             *)
(*   date       the date parsed from the first date pattern that matches   *)
(*   days       the number before day(s)/night(s)                          *)
(*   travelers  the number before person/people/traveler(s)/...            *)
(* with NULL for a pattern that does not match or finds no city.           *)
(***************************************************************************)

\* INTENT_PATTERNS: the intents in the order of the table, with priorities.
INTENT_PATTERNS ==
    <<[type |-> "BOOKING_FLIGHT",   priority |-> 10],
      [type |-> "BOOKING_HOTEL",    priority |-> 10],
      [type |-> "BOOKING_TRIP",     priority |-> 8],
      [type |-> "INFO_ITINERARY",   priority |-> 9],
      [type |-> "INFO_DESTINATION", priority |-> 9],
      [type |-> "INFO_GENERAL",     priority |-> 7],
      [type |-> "GENERAL",          priority |-> 1]>>

PatternTypes == {INTENT_PATTERNS[i].type : i \in DOMAIN INTENT_PATTERNS}

\* REQUIRED_PARAMS[intent] || []
REQUIRED_PARAMS(intent) ==
    CASE intent = "BOOKING_FLIGHT" -> <<"origin", "destination", "departureDate">>
      [] intent = "BOOKING_HOTEL"  -> <<"destination", "checkIn">>
      [] intent = "BOOKING_TRIP"   -> <<"destination", "departureDate">>
      [] OTHER                     -> <<>>

\* MISSING_PARAM_QUESTIONS[param]
MISSING_PARAM_QUESTIONS(param) ==
    CASE param = "origin"        -> "Where will you be traveling from?"
      [] param = "destination"   -> "Where would you like to go?"
      [] param = "departureDate" -> "When would you like to travel? (e.g., '15 Jan 2026', 'tomorrow', 'next week')"
      [] param = "checkIn"       -> "When would you like to check in?"
      [] param = "returnDate"    -> "When would you like to return? (or is this a one-way trip?)"
      [] OTHER                   -> NULL

\* The names of CITY_NAMES that the messages mention, in the order of the list.
CITY_NAMES == <<"delhi", "goa">>

\* The loop over CITY_NAMES of extractParams: the first name of the list
\* that the text includes.
FirstCity(cities) ==
    IF \E i \in DOMAIN CITY_NAMES : CITY_NAMES[i] \in cities
    THEN CITY_NAMES[CHOOSE i \in DOMAIN CITY_NAMES :
                       /\ CITY_NAMES[i] \in cities
                       /\ \A j \in 1..(i - 1) : CITY_NAMES[j] \notin cities]
    ELSE NULL

\* extractParams(message): a field that is not extracted is NULL.
extractParams(message) ==
    LET origin == message.fromTo.origin
        fromToDestination == message.fromTo.destination
        toDestination == IF Falsy(fromToDestination) THEN message.toCity
                         ELSE fromToDestination
        destination == IF Falsy(toDestination) /\ Falsy(origin)
                       THEN FirstCity(message.cities)
                       ELSE toDestination
    IN  [NoParams EXCEPT !["origin"] = origin,
                         !["destination"] = destination,
                         !["departureDate"] = message.date,
                         !["nights"] = message.days,
                         !["travelers"] = message.travelers]

\* matches.sort((a, b) => b.priority - a.priority): the sort is stable.
InsertMatch(sorted, m) ==
    LET k == Cardinality({i \in DOMAIN sorted : sorted[i].priority >= m.priority})
    IN  SubSeq(sorted, 1, k) \o <<m>> \o SubSeq(sorted, k + 1, Len(sorted))

RECURSIVE SortMatches(_)
SortMatches(matches) ==
    IF Len(matches) <= 1 THEN matches
    ELSE InsertMatch(SortMatches(SubSeq(matches, 1, Len(matches) - 1)),
                     matches[Len(matches)])

classifyIntentFirstListed(message, existingContext) ==
    LET matches == SelectSeq(INTENT_PATTERNS, LAMBDA p : p.type \in message.matched)
        detectedIntent == IF Len(matches) > 0 THEN matches[1].type ELSE "GENERAL"
        extractedParams == extractParams(message)
        mergedParams == [f \in ParamFields |->
                            IF extractedParams[f] # NULL THEN extractedParams[f]
                            ELSE existingContext[f]]
        missingParams == SelectSeq(REQUIRED_PARAMS(detectedIntent),
                                   LAMBDA p : Falsy(mergedParams[p]))
    IN  [type |-> detectedIntent,
         confidence |-> IF Len(matches) > 0 THEN matches[1].priority ELSE 3,
         params |-> mergedParams,
         missingParams |-> missingParams,
         followUpQuestion |-> IF Len(missingParams) > 0
                              THEN MISSING_PARAM_QUESTIONS(missingParams[1])
                              ELSE NULL]

classifyIntentKeepsExisting(message, existingContext) ==
    LET matches == SortMatches(SelectSeq(INTENT_PATTERNS,
                                         LAMBDA p : p.type \in message.matched))
        detectedIntent == IF Len(matches) > 0 THEN matches[1].type ELSE "GENERAL"
        mergedParams == [f \in ParamFields |->
                            Or(existingContext[f], extractParams(message)[f])]
        missingParams == SelectSeq(REQUIRED_PARAMS(detectedIntent),
                                   LAMBDA p : Falsy(mergedParams[p]))
    IN  [type |-> detectedIntent,
         confidence |-> IF Len(matches) > 0 THEN matches[1].priority ELSE 3,
         params |-> mergedParams,
         missingParams |-> missingParams,
         followUpQuestion |-> IF Len(missingParams) > 0
                              THEN MISSING_PARAM_QUESTIONS(missingParams[1])
                              ELSE NULL]

\* classifyIntent(message, existingContext); an undefined existingContext is
\* NoParams, and confidence is in tenths.
classifyIntent(message, existingContext) ==
    LET matches == SortMatches(SelectSeq(INTENT_PATTERNS,
                                         LAMBDA p : p.type \in message.matched))
        detectedIntent == IF Len(matches) > 0 THEN matches[1].type ELSE "GENERAL"
        extractedParams == extractParams(message)
        mergedParams == [f \in ParamFields |->
                            IF extractedParams[f] # NULL THEN extractedParams[f]
                            ELSE existingContext[f]]
        missingParams == SelectSeq(REQUIRED_PARAMS(detectedIntent),
                                   LAMBDA p : Falsy(mergedParams[p]))
    IN  [type |-> detectedIntent,
         confidence |-> IF Len(matches) > 0 THEN matches[1].priority ELSE 3,
         params |-> mergedParams,
         missingParams |-> missingParams,
         followUpQuestion |-> IF Len(missingParams) > 0
                              THEN MISSING_PARAM_QUESTIONS(missingParams[1])
                              ELSE NULL]


(***************************************************************************)
(* Inputs of classifyIntent.                                               *)
(***************************************************************************)

\* How many intents the patterns of one message match.
MaxMatched == 2

\* How many fields the existing context of a call holds.
MaxContext == 2

\* The values a field of an existing context takes: an origin may be the
\* empty string.
ContextValues(f) ==
    CASE f = "origin"        -> {"pune", EMPTY}
      [] f = "destination"   -> {"agra"}
      [] f = "departureDate" -> {"2026-02-01"}
      [] f = "checkIn"       -> {"2026-02-05"}
      [] f = "travelers"     -> {"4"}
      [] OTHER               -> {}

ContextFields == {"origin", "destination", "departureDate", "checkIn", "travelers"}

ExistingContexts ==
    UNION {
      {[f \in ParamFields |-> IF f \in S THEN g[f] ELSE NULL] :
          g \in {h \in [S -> UNION {ContextValues(x) : x \in S}] :
                    \A x \in S : h[x] \in ContextValues(x)}}
      : S \in {T \in SUBSET ContextFields : Cardinality(T) <= MaxContext}}

KeywordMessages ==
    {m \in [matched : SUBSET PatternTypes,
            cities : SUBSET {"delhi", "goa"},
            fromTo : [origin : {NULL, "delhi"}, destination : {NULL, "goa"}],
            toCity : {NULL, "goa"},
            date : {NULL, "2026-01-15"},
            days : {NULL, "3"},
            travelers : {NULL, "0", "2"}] :
        /\ Cardinality(m.matched) <= MaxMatched
        /\ \A c \in {m.fromTo.origin, m.fromTo.destination, m.toCity} :
              c = NULL \/ c \in m.cities}

InitClassify ==
    /\ db = [c \in ChatIds |-> NoContext]
    /\ turn = [route |-> "none"]
    /\ \E message \in KeywordMessages, existingContext \in ExistingContexts :
         call = [fn |-> "classifyIntent", done |-> FALSE,
                 message |-> message, existingContext |-> existingContext]

CallClassifyIntent ==
    /\ call.fn = "classifyIntent"
    /\ ~call.done
    /\ call' = [fn |-> "classifyIntent", done |-> TRUE,
                message |-> call.message, existingContext |-> call.existingContext,
                result |-> classifyIntent(call.message, call.existingContext)]
    /\ UNCHANGED <<db, turn>>

NextClassify == CallClassifyIntent

SpecClassify == InitClassify /\ [][NextClassify]_vars

(***************************************************************************)
(* Properties of classifyIntent, checked under SpecClassify.               *)
(***************************************************************************)

Classified == call.fn = "classifyIntent" /\ call.done

\* The required params the claim names for each intent.
RequiredOf(intent) ==
    IF intent = "BOOKING_FLIGHT" THEN <<"origin", "destination", "departureDate">>
    ELSE IF intent = "BOOKING_HOTEL" THEN <<"destination", "checkIn">>
    ELSE IF intent = "BOOKING_TRIP" THEN <<"destination", "departureDate">>
    ELSE <<>>

\* C6: the params of the result are the existing context with every field
\* the message yields laid over it; missingParams is the required params of
\* the detected intent that have no value (none, or the empty string) in
\* those params, in the order of the table; followUpQuestion is defined
\* exactly when a param is missing and is the question of the first one.
C6_ClassifyIntentResult ==
    Classified =>
       LET r == call.result
           extracted == extractParams(call.message)
           required == RequiredOf(r.type)
           absent == {p \in ParamFields : r.params[p] \in {NULL, EMPTY}}
       IN  /\ \A f \in ParamFields :
                r.params[f] = IF extracted[f] # NULL THEN extracted[f]
                              ELSE call.existingContext[f]
           /\ \A i \in DOMAIN r.missingParams :
                /\ r.missingParams[i] \in absent
                /\ \E j \in DOMAIN required : required[j] = r.missingParams[i]
           /\ \A j \in DOMAIN required :
                required[j] \in absent =>
                   \E i \in DOMAIN r.missingParams : r.missingParams[i] = required[j]
           /\ \A i, k \in DOMAIN r.missingParams :
                i < k => \E a, b \in DOMAIN required :
                            /\ a < b
                            /\ required[a] = r.missingParams[i]
                            /\ required[b] = r.missingParams[k]
           /\ (r.followUpQuestion # NULL) <=> (Len(r.missingParams) > 0)
           /\ Len(r.missingParams) > 0 =>
                r.followUpQuestion = MISSING_PARAM_QUESTIONS(r.missingParams[1])

\* A flight request that names a destination and a number of travelers, in
\* a conversation whose context holds an origin and other travelers: the
\* destination and the travelers of the message are laid over the context
\* and the date is asked for.
C6_Witness ==
    /\ Classified
    /\ call.result.type = "BOOKING_FLIGHT"
    /\ call.existingContext["origin"] = "pune"
    /\ call.existingContext["travelers"] = "4"
    /\ call.result.params["origin"] = "pune"
    /\ call.result.params["destination"] = "goa"
    /\ call.result.params["travelers"] = "0"
    /\ call.result.missingParams = <<"departureDate">>
    /\ call.result.followUpQuestion # NULL

\* C15: the detected intent is GENERAL when no pattern matches; otherwise it
\* is, among the intents with a matching pattern, the one of the greatest
\* priority, and of those of the greatest priority the one listed first in
\* INTENT_PATTERNS.
C15_GreatestPriorityFirstListed ==
    Classified =>
       LET matched == call.message.matched
           best == {i \in DOMAIN INTENT_PATTERNS :
                      /\ INTENT_PATTERNS[i].type \in matched
                      /\ \A j \in DOMAIN INTENT_PATTERNS :
                            INTENT_PATTERNS[j].type \in matched =>
                               INTENT_PATTERNS[j].priority <= INTENT_PATTERNS[i].priority}
       IN  IF matched = {}
           THEN call.result.type = "GENERAL"
           ELSE \E i \in best :
                   /\ \A k \in best : i <= k
                   /\ call.result.type = INTENT_PATTERNS[i].type

\* A message that matches a trip pattern and an itinerary pattern: the
\* itinerary, listed after the trip, has the greater priority and is the
\* detected intent.
C15_Witness ==
    /\ Classified
    /\ call.message.matched = {"BOOKING_TRIP", "INFO_ITINERARY"}
    /\ call.result.type = "INFO_ITINERARY"
    /\ call.result.confidence = 9


(***************************************************************************)
(* app/api/chat/route.ts                                                   *)
(*                                                                         *)
(* A message is the sequence of the lower-case words of its text; a        *)
(* history is the sequence of the words of its last four messages.  A      *)
(* substring test of the code is a test on words, and an index in the text *)
(* is the position of a word.  A date is written as the words of the       *)
(* message give it, the clock is not followed.                             *)
(***************************************************************************)

\* The keys of cityToIATA that the messages mention, in the order of the map.
knownCities == <<"delhi", "mumbai", "goa">>

FlightWords == {"flight", "flights", "fly"}
HotelWords  == {"hotel", "hotels", "stay", "room"}
TripWords   == {"trip", "travel", "plan"}
PeopleWords == {"people", "person", "passenger", "adult", "guest"}
Numerals    == {"0", "2", "3"}
MonthWords  == {"jan"}
DayWords    == {"15"}
YearWords   == {"2027"}

\* [a-zA-Z]+ : a word of letters.
IsAlpha(word) == word \notin Numerals \cup DayWords \cup YearWords

WordsOf(text) == {text[i] : i \in DOMAIN text}

Includes(text, words) == WordsOf(text) \cap words # {}

\* text.indexOf(word) for a word the text includes.
IndexOf(text, words) ==
    CHOOSE i \in DOMAIN text :
        /\ text[i] \in words
        /\ \A j \in 1..(i - 1) : text[j] \notin words

\* The first element of a list that is in a set, or null.
FirstIn(list, set) ==
    IF \E i \in DOMAIN list : list[i] \in set
    THEN list[CHOOSE i \in DOMAIN list :
                 list[i] \in set /\ \A j \in 1..(i - 1) : list[j] \notin set]
    ELSE NULL

\* findCityInText(text)
findCityInText(text) == FirstIn(knownCities, WordsOf(text))

\* The match of /from\s+([a-zA-Z\s]+?)\s+to\s+([a-zA-Z\s]+?)(?:\s+on|\s+for|
\* \s+next|\s+this|\s*$|[.,!?])/ : the positions <<i, j, k>> of "from", of
\* "to" and of the last word of the second group; the leftmost "from", and
\* for it the shortest groups.
FromToCandidates(text) ==
    {c \in (DOMAIN text) \X (DOMAIN text) \X (DOMAIN text) :
        /\ text[c[1]] = "from"
        /\ text[c[2]] = "to"
        /\ c[2] >= c[1] + 2
        /\ c[3] >= c[2] + 1
        /\ \A x \in (c[1] + 1)..c[3] : IsAlpha(text[x])
        /\ \/ c[3] = Len(text)
           \/ text[c[3] + 1] \in {"on", "for", "next", "this"}}

Before(c, d) ==
    \/ c[1] < d[1]
    \/ c[1] = d[1] /\ c[2] < d[2]
    \/ c[1] = d[1] /\ c[2] = d[2] /\ c[3] <= d[3]

fromToMatch(text) ==
    CHOOSE c \in FromToCandidates(text) : \A d \in FromToCandidates(text) : Before(c, d)

\* Math.ceil(count / 2) for the counts of Numerals.
HalfUp(count) ==
    CASE count = "0" -> "0"
      [] count = "2" -> "1"
      [] count = "3" -> "2"


\* ConversationState with nothing set.
StateFields ==
    {"intent", "origin", "destination", "departureDate", "returnDate",
     "passengers", "checkIn", "checkOut", "rooms"}

NoState == [f \in StateFields |-> NULL]

\* Two words next to each other in a text.
Adjacent(text, firsts, seconds) ==
    \E i \in DOMAIN text :
        i + 1 \in DOMAIN text /\ text[i] \in firsts /\ text[i + 1] \in seconds

\* Lines 511-517: the intent of the current message.
MessageIntent(message) ==
    IF Includes(message, FlightWords) THEN "flight"
    ELSE IF Includes(message, HotelWords) THEN "hotel"
    ELSE IF Includes(message, TripWords) THEN "trip"
    ELSE NULL

\* Lines 586-594: the intent of the recent history.
HistoryIntent(history) ==
    IF Includes(history, FlightWords) THEN "flight"
    ELSE IF Includes(history, {"hotel", "hotels", "stay"}) THEN "hotel"
    ELSE IF Includes(history, {"trip", "travel"}) THEN "trip"
    ELSE NULL

\* Lines 534-576: origin and destination from the known cities of a message
\* that has no "from X to Y".
CitiesOfMessage(message) ==
    LET citiesInMessage == SelectSeq(knownCities, LAMBDA city : city \in WordsOf(message))
        hasFrom == "from" \in WordsOf(message) /\ Len(citiesInMessage) >= 1
        fromIndex == IndexOf(message, {"from"})
        toPositions == {p \in 2..(Len(message) - 1) : message[p] = "to"}
        hasTo == toPositions # {}
        toIndex == CHOOSE p \in toPositions : \A q \in toPositions : p <= q
        fromOrigin ==
            IF hasFrom
            THEN FirstIn(citiesInMessage,
                         {city \in WordsOf(message) :
                             /\ IndexOf(message, {city}) > fromIndex
                             /\ (~hasTo \/ IndexOf(message, {city}) < toIndex)})
            ELSE NULL
        toDestination ==
            IF hasFrom /\ hasTo
            THEN FirstIn(citiesInMessage,
                         {city \in WordsOf(message) : IndexOf(message, {city}) > toIndex})
            ELSE NULL
    IN  IF Falsy(fromOrigin) /\ Falsy(toDestination) /\ Len(citiesInMessage) >= 2
        THEN [origin |-> citiesInMessage[1], destination |-> citiesInMessage[2]]
        ELSE IF Falsy(toDestination) /\ Len(citiesInMessage) >= 1 /\ Truthy(fromOrigin)
        THEN [origin |-> fromOrigin,
              destination |-> Or(FirstIn(citiesInMessage,
                                         WordsOf(message) \ {fromOrigin}),
                                 citiesInMessage[1])]
        ELSE IF Falsy(fromOrigin) /\ Falsy(toDestination) /\ Len(citiesInMessage) = 1
        THEN [origin |-> fromOrigin, destination |-> citiesInMessage[1]]
        ELSE [origin |-> fromOrigin, destination |-> toDestination]

\* Lines 519-612: intent, origin and destination.
PlacesOf(message, history) ==
    IF FromToCandidates(message) # {}
    THEN LET m == fromToMatch(message)
             originText == SubSeq(message, m[1] + 1, m[2] - 1)
             destText == SubSeq(message, m[2] + 1, m[3])
         IN  [intent |-> MessageIntent(message),
              origin |-> Or(findCityInText(originText), originText[1]),
              destination |-> Or(findCityInText(destText), destText[1])]
    ELSE LET here == CitiesOfMessage(message)
             intent == MessageIntent(message)
         IN  IF (Falsy(here.origin) \/ Falsy(here.destination) \/ Falsy(intent))
                /\ Len(history) > 0
             THEN [intent |-> IF Falsy(intent) THEN HistoryIntent(history) ELSE intent,
                   origin |-> IF Falsy(here.origin)
                              THEN FirstIn(knownCities,
                                           {city \in WordsOf(history) :
                                               Adjacent(history, {"from"}, {city})})
                              ELSE here.origin,
                   destination |-> IF Falsy(here.destination)
                                   THEN FirstIn(knownCities,
                                                {city \in WordsOf(history) :
                                                    Adjacent(history, {"to", "in"}, {city})})
                                   ELSE here.destination]
             ELSE [intent |-> intent, origin |-> here.origin,
                   destination |-> here.destination]

\* Lines 614-620: the count before people/person/passenger/adult/guest.
PeopleOf(message) ==
    IF Adjacent(message, Numerals, PeopleWords)
    THEN message[CHOOSE i \in DOMAIN message :
                    /\ i + 1 \in DOMAIN message
                    /\ message[i] \in Numerals /\ message[i + 1] \in PeopleWords
                    /\ \A j \in 1..(i - 1) :
                          ~(message[j] \in Numerals /\ message[j + 1] \in PeopleWords)]
    ELSE NULL

Follows(text, a, b, c) ==
    \E i \in DOMAIN text :
        /\ i + 2 \in DOMAIN text
        /\ text[i] \in a /\ text[i + 1] \in b /\ text[i + 2] \in c

\* A day and a month next to each other, in either order, with no year after.
Yearless(text) ==
    \E i \in DOMAIN text :
        /\ i + 1 \in DOMAIN text
        /\ \/ text[i] \in DayWords /\ text[i + 1] \in MonthWords
           \/ text[i] \in MonthWords /\ text[i + 1] \in DayWords
        /\ ~(i + 2 \in DOMAIN text /\ text[i + 2] \in YearWords)

\* Lines 622-720: the departure date of the message.
DateOf(message) ==
    IF \/ Follows(message, DayWords, MonthWords, YearWords)
       \/ Follows(message, MonthWords, DayWords, YearWords)
       \/ Includes(message, {"15/01/2027"})
    THEN "2027-01-15"
    ELSE IF Yearless(message) THEN "the next 15 jan"
    ELSE IF Includes(message, {"tomorrow"}) THEN "the day after the request"
    ELSE IF Includes(message, {"today"}) THEN "the day of the request"
    ELSE IF Adjacent(message, {"next"}, {"week"}) THEN "a week after the request"
    ELSE IF Adjacent(message, {"next"}, {"month"}) THEN "a month after the request"
    ELSE NULL

\* analyzeConversation(message, history)
analyzeConversation(message, history) ==
    LET places == PlacesOf(message, history)
        count == PeopleOf(message)
    IN  [NoState EXCEPT
           !["intent"] = places.intent,
           !["origin"] = places.origin,
           !["destination"] = places.destination,
           !["passengers"] = count,
           !["rooms"] = IF count = NULL THEN NULL ELSE HalfUp(count),
           !["departureDate"] = DateOf(message)]


\* isInfoQuery(message): the keywords and patterns that the words of the
\* messages can make.
isInfoQuery(message) ==
    \/ Includes(message, {"weather", "visa", "currency", "food", "culture", "safety",
                          "tips", "guide", "recommend", "suggest", "explore",
                          "attractions", "sightseeing"})
    \/ Adjacent(message, {"best"}, {"time"})
    \/ Adjacent(message, {"places"}, {"to", "in"})
    \/ Adjacent(message, {"visit"}, {"in"})

\* getIATACode(city): the code of a key of cityToIATA, null for another word.
getIATACode(city) ==
    IF \E i \in DOMAIN knownCities : knownCities[i] = city THEN city ELSE NULL

\* generateFallbackFlightResults(origin, destination): three flights.
generateFallbackFlightResults == Results("flight", 3)

\* generateMockHotelResults(destination): three hotels.
generateMockHotelResults == Results("hotel", 3)

searchRealFlightsNoFallback(origin, destination, env) ==
    IF getIATACode(origin) = NULL \/ getIATACode(destination) = NULL
    THEN generateFallbackFlightResults
    ELSE IF env.amadeus.outcome = "ok"
    THEN Results("flight", Min(env.amadeus.offers, 5))
    ELSE generateFallbackFlightResults

\* searchRealFlights(origin, destination, requestedDate)
searchRealFlights(origin, destination, env) ==
    IF getIATACode(origin) = NULL \/ getIATACode(destination) = NULL
    THEN generateFallbackFlightResults
    ELSE IF env.amadeus.outcome = "ok" /\ env.amadeus.offers > 0
    THEN Results("flight", Min(env.amadeus.offers, 5))
    ELSE generateFallbackFlightResults

\* [...flightResults.slice(0, 2), ...generateMockHotelResults(d).slice(0, 2)]
TripResults(flightResults) ==
    Results("trip", Min(flightResults.n, 2) + Min(generateMockHotelResults.n, 2))

Reply(status, step, searchResults) ==
    [status |-> status, step |-> step, searchResults |-> searchResults]

\* generateConversationalResponse(message, state, history)
generateConversationalResponse(message, state, env) ==
    IF state["intent"] = "flight" /\ Truthy(state["origin"]) /\ Truthy(state["destination"])
    THEN IF Falsy(state["departureDate"])
         THEN Reply(200, "conversation: ask date", NoResults)
         ELSE Reply(200, "conversation: flights",
                    searchRealFlights(state["origin"], state["destination"], env))
    ELSE IF state["intent"] = "hotel" /\ Truthy(state["destination"])
    THEN IF Falsy(state["checkIn"])
         THEN Reply(200, "conversation: ask check-in", NoResults)
         ELSE Reply(200, "conversation: hotels", generateMockHotelResults)
    ELSE IF /\ state["intent"] = "trip" \/ Includes(message, {"trip", "travel"})
            /\ Truthy(state["destination"])
    THEN IF Falsy(state["departureDate"])
         THEN Reply(200, "conversation: ask trip date", NoResults)
         ELSE Reply(200, "conversation: trip",
                    TripResults(IF Truthy(state["origin"])
                                THEN searchRealFlights(state["origin"],
                                                       state["destination"], env)
                                ELSE generateFallbackFlightResults))
    ELSE Reply(200, "conversation: text", NoResults)

ChatReplyBookingFirst(message, state, env) ==
    LET destination == Or(findCityInText(message), state["destination"])
    IN  IF /\ state["intent"] = "flight"
           /\ Truthy(state["origin"]) /\ Truthy(state["destination"])
           /\ Truthy(state["departureDate"])
        THEN Reply(200, "flight search",
                   searchRealFlights(state["origin"], state["destination"], env))
        ELSE IF isInfoQuery(message) /\ Truthy(destination)
                /\ env.web \in {"answer", "results"}
        THEN Reply(200, "info", Results("info", Min(TavilyResultCount, 3)))
        ELSE Reply(200, "openai", NoResults)

\* Steps 1 to 3 of POST: the response for a message and the merged state.
\* env.web is what searchTravelInfo finds ("none": no key, nothing found or a
\* failed search), env.amadeus what the flight search does, env.openai
\* whether OPENAI_API_KEY is set and what the completion request does.
ChatReply(message, state, env) ==
    LET destination == Or(findCityInText(message), state["destination"])
    IN  IF isInfoQuery(message) /\ Truthy(destination) /\ env.web \in {"answer", "results"}
        THEN Reply(200, "info", Results("info", Min(TavilyResultCount, 3)))
        ELSE IF /\ state["intent"] = "flight"
                /\ Truthy(state["origin"]) /\ Truthy(state["destination"])
        THEN IF Truthy(state["departureDate"])
             THEN Reply(200, "flight search",
                        searchRealFlights(state["origin"], state["destination"], env))
             ELSE Reply(200, "flight: ask date", NoResults)
        ELSE IF state["intent"] = "hotel" /\ Truthy(state["destination"])
        THEN IF Truthy(state["checkIn"])
             THEN Reply(200, "hotel search", generateMockHotelResults)
             ELSE Reply(200, "hotel: ask check-in", NoResults)
        ELSE IF state["intent"] = "trip" /\ Truthy(state["destination"])
        THEN IF Truthy(state["departureDate"])
             THEN Reply(200, "trip search",
                        TripResults(IF Truthy(state["origin"])
                                    THEN searchRealFlights(state["origin"],
                                                           state["destination"], env)
                                    ELSE generateFallbackFlightResults))
             ELSE Reply(200, "trip: ask date", NoResults)
        ELSE IF env.openai = "nokey"
        THEN generateConversationalResponse(message, state, env)
        ELSE IF env.openai = "error"
        THEN Reply(500, "openai", NoResults)
        ELSE Reply(200, "openai", NoResults)


\* Lines 172-184 of POST: the new context built from the parsed state.
ParsedContext(chatId, parsedState) ==
    [NoFields EXCEPT
       !["chat_id"] = chatId,
       !["intent"] = parsedState["intent"],
       !["origin"] = parsedState["origin"],
       !["destination"] = parsedState["destination"],
       !["departure_date"] = parsedState["departureDate"],
       !["return_date"] = parsedState["returnDate"],
       !["passengers"] = parsedState["passengers"],
       !["check_in"] = parsedState["checkIn"],
       !["check_out"] = parsedState["checkOut"],
       !["rooms"] = parsedState["rooms"]]

\* Lines 188-198 of POST: the merged context as a ConversationState.
StateOfContext(mergedContext) ==
    [intent        |-> Or(mergedContext["intent"], NULL),
     origin        |-> Or(mergedContext["origin"], NULL),
     destination   |-> Or(mergedContext["destination"], NULL),
     departureDate |-> Or(mergedContext["departure_date"], NULL),
     returnDate    |-> Or(mergedContext["return_date"], NULL),
     passengers    |-> mergedContext["passengers"],
     checkIn       |-> Or(mergedContext["check_in"], NULL),
     checkOut      |-> Or(mergedContext["check_out"], NULL),
     rooms         |-> mergedContext["rooms"]]

\* The messages of the conversations that are followed.
ChatMessages ==
    {<<"flights", "from", "delhi", "to", "goa">>,
     <<"flights", "to", "goa">>,
     <<"from", "mumbai">>,
     <<"hotel", "in", "goa">>,
     <<"trip", "to", "delhi">>,
     <<"tomorrow">>,
     <<"15", "jan", "2027">>,
     <<"0", "people">>,
     <<"weather", "in", "goa">>,
     <<"hello">>}

\* The messages of the single requests that are looked at one by one: also a
\* city that cityToIATA does not know, and a question that names no city.
RequestMessages ==
    ChatMessages \cup {<<"flights", "from", "pune", "to", "goa">>, <<"weather">>}

\* The recent histories the requests send.
ChatHistories == {<<>>, <<"flights", "from", "delhi", "to", "goa">>}

\* analyzeConversation on the messages and histories of the requests.
ParsedStates ==
    [message \in RequestMessages, history \in ChatHistories |->
        analyzeConversation(message, history)]

\* What the external calls of one request do: a call that the request does
\* not make is "unused".
ChatEnvs(message, state) ==
    LET info == isInfoQuery(message)
                /\ Truthy(Or(findCityInText(message), state["destination"]))
        places == Truthy(state["origin"]) /\ Truthy(state["destination"])
        searches == /\ places
                    /\ Truthy(state["departureDate"])
                    /\ state["intent"] \in {"flight", "trip"}
                    /\ getIATACode(state["origin"]) # NULL
                    /\ getIATACode(state["destination"]) # NULL
        completes == ~ \/ state["intent"] = "flight" /\ places
                       \/ state["intent"] \in {"hotel", "trip"}
                          /\ Truthy(state["destination"])
    IN  {env \in [web : IF info THEN {"none", "answer", "results"} ELSE {"unused"},
                  amadeus : {[outcome |-> "unused", offers |-> 0],
                             [outcome |-> "error", offers |-> 0],
                             [outcome |-> "ok", offers |-> 0],
                             [outcome |-> "ok", offers |-> MaxOffers]},
                  openai : {"unused", "nokey", "text", "error"}] :
            LET answered == env.web \in {"answer", "results"}
            IN  /\ (env.amadeus.outcome # "unused") <=> (~answered /\ searches)
                /\ (env.openai # "unused") <=> (~answered /\ completes)}

InitChat ==
    /\ db = [c \in ChatIds |-> NoContext]
    /\ turn = [route |-> "none"]
    /\ call = NoCall

\* POST /api/chat with a body that is not JSON.
PostChatBadJson ==
    /\ turn' = [route |-> "chat", status |-> 500, body |-> "not-json"]
    /\ UNCHANGED <<db, call>>

\* POST /api/chat with no message.
PostChatNoMessage ==
    /\ \E kind \in {"missing", "empty"} :
         turn' = [route |-> "chat", status |-> 400, body |-> kind]
    /\ UNCHANGED <<db, call>>

\* POST /api/chat with a message: load the context, parse the message, merge,
\* save, answer.
PostChat ==
    \E conversationId \in ChatIds \cup {NULL},
       message \in ChatMessages,
       history \in ChatHistories,
       loadOutcome \in {"ok", "error"},
       saveOutcome \in {"ok", "error"} :
      LET chatId == Or(conversationId, FreshChatId(db))
          existingContext == getConversationContext(db, chatId, loadOutcome)
          parsedState == ParsedStates[message, history]
          mergedContext == mergeContext(existingContext, ParsedContext(chatId, parsedState))
          state == StateOfContext(mergedContext)
      IN  /\ db' = saveConversationContext(db, mergedContext, saveOutcome)
          /\ \E env \in ChatEnvs(message, state) :
               LET reply == ChatReply(message, state, env)
               IN  turn' = [route |-> "chat", status |-> reply.status, body |-> "text",
                            conversationId |-> conversationId,
                            step |-> reply.step,
                            searchResults |-> reply.searchResults]
          /\ UNCHANGED call

NextChat == PostChatBadJson \/ PostChatNoMessage \/ PostChat

SpecChat == InitChat /\ [][NextChat]_vars

(***************************************************************************)
(* Properties of POST /api/chat, checked under SpecChat.                   *)
(***************************************************************************)

\* C2: a slot of the stored context of a conversation that is not null stays
\* not null over every later request of the conversation.
C2_StoredSlotStays ==
    [][\A f \in CollectedSlots :
          (db["c1"] # NoContext /\ db["c1"][f] # NULL)
             => (db'["c1"] # NoContext /\ db'["c1"][f] # NULL)]_vars


(***************************************************************************)
(* One request of POST /api/chat on a stored conversation, with the        *)
(* request, the parsed and the merged state and the calls on record.       *)
(***************************************************************************)

\* The rows of a conversation after one more request, for the rows `rows'
\* before it (a failed read merges into no context).
RowsAfter(rows) ==
    rows \cup {UpsertData(mergeContext(existing,
                                       ParsedContext("c1", ParsedStates[message, history]))) :
                 existing \in rows, message \in RequestMessages, history \in ChatHistories}

\* The rows of a conversation after at most two requests.
StoredChatRows == RowsAfter(RowsAfter({NoContext}))

InitRequest ==
    /\ db \in {[c \in ChatIds |-> row] : row \in StoredChatRows}
    /\ turn = [route |-> "none"]
    /\ call = NoCall

\* POST /api/chat with a message, as PostChat, once.
PostChatRequest ==
    /\ turn.route = "none"
    /\ \E conversationId \in ChatIds \cup {NULL},
          message \in RequestMessages,
          history \in ChatHistories,
          loadOutcome \in {"ok", "error"},
          saveOutcome \in {"ok", "error"} :
         LET chatId == Or(conversationId, FreshChatId(db))
             existingContext == getConversationContext(db, chatId, loadOutcome)
             parsedState == ParsedStates[message, history]
             mergedContext == mergeContext(existingContext,
                                           ParsedContext(chatId, parsedState))
             state == StateOfContext(mergedContext)
         IN  /\ db' = saveConversationContext(db, mergedContext, saveOutcome)
             /\ \E env \in ChatEnvs(message, state) :
                  LET reply == ChatReply(message, state, env)
                  IN  /\ turn' = [route |-> "chat", status |-> reply.status,
                                  body |-> "text", conversationId |-> conversationId,
                                  step |-> reply.step,
                                  searchResults |-> reply.searchResults]
                      /\ call' = [fn |-> "POST /api/chat", chatId |-> chatId,
                                  message |-> message, history |-> history,
                                  loadOutcome |-> loadOutcome,
                                  saveOutcome |-> saveOutcome,
                                  stored |-> db["c1"],
                                  existingContext |-> existingContext,
                                  parsedState |-> parsedState,
                                  state |-> state, env |-> env]

NextRequest == PostChatRequest

SpecRequest == InitRequest /\ [][NextRequest]_vars

(***************************************************************************)
(* Properties of one request of POST /api/chat, checked under SpecRequest. *)
(***************************************************************************)

Requested == call.fn = "POST /api/chat"

\* The merged state is a flight with origin, destination and date.
FlightComplete ==
    /\ call.state["intent"] = "flight"
    /\ Truthy(call.state["origin"])
    /\ Truthy(call.state["destination"])
    /\ Truthy(call.state["departureDate"])

\* C11: a request whose merged state is a flight with origin, destination
\* and departure date, and that is not answered as an info query, is
\* answered 200 with a non-empty list of flights (the offers of the search,
\* or the fallback flights), never with a question.
C11_CompleteFlightGetsResults ==
    (Requested /\ FlightComplete /\ turn.step # "info") =>
        /\ turn.status = 200
        /\ turn.step = "flight search"
        /\ turn.searchResults.type = "flight"
        /\ turn.searchResults.n > 0

\* The date that completes a stored flight from delhi to goa, with a flight
\* search that returns nothing: the three fallback flights are the answer.
C11_Witness ==
    /\ Requested
    /\ call.message = <<"tomorrow">>
    /\ call.existingContext # NoContext
    /\ call.existingContext["departure_date"] = NULL
    /\ FlightComplete
    /\ call.env.amadeus = [outcome |-> "ok", offers |-> 0]
    /\ turn.searchResults = Results("flight", 3)

\* The message is an info query about a destination (a city of the message,
\* else the destination of the merged state) and the web search found an
\* answer or a result.
InfoAnswerable ==
    /\ isInfoQuery(call.message)
    /\ \/ \E i \in DOMAIN knownCities : knownCities[i] \in WordsOf(call.message)
       \/ Truthy(call.state["destination"])
    /\ call.env.web \in {"answer", "results"}

\* C12: an info query that the web search can answer is answered with the
\* info response and no flight search is made in the request, whatever the
\* merged state, a complete flight included.
C12_InfoQueryFirst ==
    (Requested /\ InfoAnswerable) =>
        /\ turn.status = 200
        /\ turn.step = "info"
        /\ turn.searchResults.type = "info"
        /\ call.env.amadeus.outcome = "unused"

\* A question about the weather in a conversation whose stored flight from
\* delhi to goa has its date: answered from the web search.
C12_Witness ==
    /\ Requested
    /\ call.message = <<"weather">>
    /\ FlightComplete
    /\ call.existingContext # NoContext
    /\ call.existingContext["destination"] = "goa"
    /\ call.env.web = "answer"
    /\ turn.step = "info"

\* The message has "from", no "to", and exactly one known city, after "from".
FromOneCity ==
    LET words == WordsOf(call.message)
        cities == {knownCities[i] : i \in DOMAIN knownCities} \cap words
    IN  /\ "from" \in words
        /\ "to" \notin words
        /\ Cardinality(cities) = 1
        /\ \A city \in cities :
              IndexOf(call.message, {city}) > IndexOf(call.message, {"from"})

\* C13: a message with "from" followed by exactly one known city and no "to"
\* gives that city as the origin and no destination: origin and destination
\* of the parsed state differ, and the destination of the context that was
\* read is the destination of the merged state.
C13_FromCityIsOriginOnly ==
    (Requested /\ FromOneCity) =>
        /\ Truthy(call.parsedState["origin"])
        /\ call.parsedState["origin"] \in WordsOf(call.message)
        /\ Falsy(call.parsedState["destination"])
        /\ call.parsedState["origin"] # call.parsedState["destination"]
        /\ call.existingContext # NoContext =>
              call.state["destination"] = call.existingContext["destination"]


(***************************************************************************)
(* chat-handler.ts: handleChatMessage and its handlers.  The handlers that *)
(* share a name with those of smart-chat-handler.ts carry the prefix       *)
(* chatHandler.                                                            *)
(***************************************************************************)

\* A ChatResponse of chat-handler.ts.  searched tells whether the search
\* branch of handleFlightBooking was entered, flights how many flights the
\* searchResults hold.
HandlerResponse(message, intent, needsMoreInfo, searchResults, flights, searched, state) ==
    [rejected |-> FALSE, message |-> message, intent |-> intent,
     needsMoreInfo |-> needsMoreInfo, searchResults |-> searchResults,
     flights |-> flights, searched |-> searched, state |-> state]

\* A handler whose promise rejects.
HandlerRejected(searched) == [rejected |-> TRUE, searched |-> searched, flights |-> 0]

\* getMissingParamMessage(param)
getMissingParamMessage(param) ==
    CASE param = "origin"        -> "Where will you be traveling from?"
      [] param = "destination"   -> "Where would you like to go?"
      [] param = "departureDate" -> "When would you like to travel?"
      [] param = "checkIn"       -> "When would you like to check in?"
      [] OTHER                   -> "Could you provide more details?"

\* transformFlightResults(data, params) of chat-handler.ts: at most five.
chatHandlerTransformFlightResults(offers) == Results("flight", Min(offers, 5))

\* generateFallbackFlights(params) of chat-handler.ts: five flights.
chatHandlerFallbackFlights == Results("flight", 5)

\* generateHotelResults(destination) of chat-handler.ts: five hotels.
chatHandlerHotelResults == Results("hotel", 5)

\* handleFlightBooking(classified, history) of chat-handler.ts.  In the
\* search branch an undefined origin or destination throws inside the try
\* (toLowerCase of undefined) and again in the catch (capitalize of
\* undefined), so the promise rejects.
chatHandlerFlightBooking(classified, env) ==
    LET params == classified.params
    IN  IF Len(classified.missingParams) > 0
        THEN HandlerResponse(Or(classified.followUpQuestion,
                                getMissingParamMessage(classified.missingParams[1])),
                             "BOOKING_FLIGHT", TRUE, NoResults, 0, FALSE, params)
        ELSE IF params["origin"] = NULL \/ params["destination"] = NULL
        THEN HandlerRejected(TRUE)
        ELSE IF env.amadeus.outcome = "ok"
        THEN HandlerResponse("Here are the available flights", "BOOKING_FLIGHT", FALSE,
                             chatHandlerTransformFlightResults(env.amadeus.offers),
                             Min(env.amadeus.offers, 5), TRUE, params)
        ELSE HandlerResponse("I found some flight options", "BOOKING_FLIGHT", FALSE,
                             chatHandlerFallbackFlights, 5, TRUE, params)

\* handleHotelBooking(classified, history) of chat-handler.ts.
chatHandlerHotelBooking(classified, env) ==
    IF Len(classified.missingParams) > 0
    THEN HandlerResponse(Or(classified.followUpQuestion,
                            getMissingParamMessage(classified.missingParams[1])),
                         "BOOKING_HOTEL", TRUE, NoResults, 0, FALSE, classified.params)
    ELSE HandlerResponse("Here are the best hotels", "BOOKING_HOTEL", FALSE,
                         chatHandlerHotelResults, 0, FALSE, classified.params)

\* handleTripBooking(classified, history): with nothing missing for the trip
\* it awaits handleFlightBooking on the same classified intent.
handleTripBooking(classified, env) ==
    IF Len(classified.missingParams) > 0
    THEN HandlerResponse(Or(classified.followUpQuestion,
                            getMissingParamMessage(classified.missingParams[1])),
                         "BOOKING_TRIP", TRUE, NoResults, 0, FALSE, classified.params)
    ELSE LET flightResponse == chatHandlerFlightBooking(classified, env)
         IN  IF flightResponse.rejected
             THEN flightResponse
             ELSE HandlerResponse("Here are options for your trip", "BOOKING_TRIP", FALSE,
                                  Results("trip", Min(flightResponse.searchResults.n, 3)
                                                  + Min(chatHandlerHotelResults.n, 2)),
                                  Min(flightResponse.searchResults.n, 3),
                                  flightResponse.searched, classified.params)

\* handleInfoQuery(message, classified, history)
handleInfoQuery(classified, env) ==
    IF Falsy(classified.params["destination"])
    THEN HandlerResponse("Which destination would you like to know about?",
                         classified.type, TRUE, NoResults, 0, FALSE, classified.params)
    ELSE HandlerResponse(IF env.web = "answer" THEN "answer"
                         ELSE "Here's what I found about",
                         classified.type, FALSE,
                         Results("info", IF env.web = "none" THEN 0
                                         ELSE Min(TavilyResultCount, 3)),
                         0, FALSE, classified.params)

\* handleItineraryRequest(message, classified, history)
handleItineraryRequest(classified, env) ==
    IF Falsy(classified.params["destination"])
    THEN HandlerResponse("Which destination would you like me to plan an itinerary for?",
                         "INFO_ITINERARY", TRUE, NoResults, 0, FALSE, classified.params)
    ELSE IF env.openai = "text"
    THEN HandlerResponse("itinerary", "INFO_ITINERARY", FALSE,
                         IF env.web = "none" THEN NoResults
                         ELSE Results("info", Min(TavilyResultCount, 2)),
                         0, FALSE, classified.params)
    ELSE handleInfoQuery(classified, env)

\* handleGeneralChat(message, classified, history)
handleGeneralChat(classified, env) ==
    HandlerResponse(IF env.openai = "text" THEN "completion"
                    ELSE "I'm here to help with your travel plans!",
                    "GENERAL", FALSE, NoResults, 0, FALSE, classified.params)

\* handleChatMessage(message, conversationHistory, existingContext)
handleChatMessage(message, existingContext, env) ==
    LET classified == classifyIntent(message, existingContext)
    IN  CASE classified.type = "BOOKING_FLIGHT" -> chatHandlerFlightBooking(classified, env)
          [] classified.type = "BOOKING_HOTEL"  -> chatHandlerHotelBooking(classified, env)
          [] classified.type = "BOOKING_TRIP"   -> handleTripBooking(classified, env)
          [] classified.type \in {"INFO_DESTINATION", "INFO_GENERAL"} ->
                handleInfoQuery(classified, env)
          [] classified.type = "INFO_ITINERARY" -> handleItineraryRequest(classified, env)
          [] OTHER -> handleGeneralChat(classified, env)

\* The messages handled: those of the classifier that match at most one
\* intent and give no number of days or of travelers.
HandlerMessages ==
    {m \in KeywordMessages :
        Cardinality(m.matched) <= 1 /\ m.days = NULL /\ m.travelers = NULL}

\* What the external calls of one message do: a call that is not made is
\* "unused".
HandlerEnvs(classified) ==
    LET destination == Truthy(classified.params["destination"])
        searches == /\ classified.type \in {"BOOKING_FLIGHT", "BOOKING_TRIP"}
                    /\ Len(classified.missingParams) = 0
                    /\ classified.params["origin"] # NULL
        webs == classified.type \in {"INFO_DESTINATION", "INFO_GENERAL", "INFO_ITINERARY"}
                /\ destination
        completes == \/ classified.type = "GENERAL"
                     \/ classified.type = "INFO_ITINERARY" /\ destination
    IN  [amadeus : IF searches
                   THEN {[outcome |-> "error", offers |-> 0]}
                        \cup {[outcome |-> "ok", offers |-> n] : n \in {0, 2, MaxOffers}}
                   ELSE {[outcome |-> "unused", offers |-> 0]},
         web : IF webs THEN {"none", "answer", "results"} ELSE {"unused"},
         openai : IF completes THEN {"nokey", "text", "error"} ELSE {"unused"}]

InitChatHandler ==
    /\ db = [c \in ChatIds |-> NoContext]
    /\ turn = [route |-> "none"]
    /\ \E message \in HandlerMessages, existingContext \in ExistingContexts :
         call = [fn |-> "handleChatMessage", done |-> FALSE,
                 message |-> message, existingContext |-> existingContext,
                 classified |-> classifyIntent(message, existingContext)]

CallHandleChatMessage ==
    /\ call.fn = "handleChatMessage"
    /\ ~call.done
    /\ \E env \in HandlerEnvs(call.classified) :
         call' = [fn |-> "handleChatMessage", done |-> TRUE,
                  message |-> call.message, existingContext |-> call.existingContext,
                  classified |-> call.classified, env |-> env,
                  result |-> handleChatMessage(call.message, call.existingContext, env)]
    /\ UNCHANGED <<db, turn>>

NextChatHandler == CallHandleChatMessage

SpecChatHandler == InitChatHandler /\ [][NextChatHandler]_vars

(***************************************************************************)
(* Properties of chat-handler.ts, checked under SpecChatHandler.           *)
(***************************************************************************)

ChatHandled == call.fn = "handleChatMessage" /\ call.done

\* C14: the search branch of handleFlightBooking is entered only with an
\* origin, a destination and a departure date, also through
\* handleTripBooking: a BOOKING_TRIP without an origin yields no flights.
C14_SearchNeedsOrigin ==
    ChatHandled =>
        /\ call.result.searched =>
              \A p \in {"origin", "destination", "departureDate"} :
                 Truthy(call.classified.params[p])
        /\ (call.classified.type = "BOOKING_TRIP"
            /\ Falsy(call.classified.params["origin"])) => call.result.flights = 0


(***************************************************************************)
(* middleware.ts.  A pathname is the sequence of its segments: "/" is the  *)
(* empty sequence, "/chat/" ends with an empty segment.                    *)
(***************************************************************************)

\* The longest pathname, in segments.
MaxSegments == 2

\* config.matcher: the middleware does not run for the paths that start
\* with _next/static, _next/image, favicon.ico, api, auth/callback or admin.
matcher(pathname) ==
    ~ /\ Len(pathname) >= 1
      /\ \/ pathname[1] \in {"api", "admin", "favicon.ico"}
         \/ Len(pathname) >= 2 /\ pathname[1] = "auth" /\ pathname[2] = "callback"
         \/ Len(pathname) >= 2 /\ pathname[1] = "_next"
            /\ pathname[2] \in {"static", "image"}

\* pathname.startsWith("/chat/")
StartsWithChat(pathname) == Len(pathname) >= 2 /\ pathname[1] = "chat"

\* NextResponse.redirect(url): the pathname of the url and its redirectTo
\* parameter.
Redirect(pathname, redirectTo) ==
    [kind |-> "redirect", pathname |-> pathname, redirectTo |-> redirectTo]

\* NextResponse.next(): the request goes on to the page.
PassThrough == [kind |-> "next", pathname |-> <<>>, redirectTo |-> NULL]

middlewareExactRoutes(user, pathname) ==
    IF user = NULL /\ pathname \in {<<>>, <<"chat">>}
    THEN Redirect(<<"login">>, pathname)
    ELSE IF user # NULL /\ pathname \in {<<"login">>, <<"register">>}
    THEN Redirect(<<>>, NULL)
    ELSE PassThrough

\* middleware(request): user is the user of the session, null without one.
middleware(user, pathname) ==
    LET isProtectedRoute ==
            \E route \in {<<>>, <<"chat">>} :
               pathname = route \/ StartsWithChat(pathname)
        isAuthRoute == \E route \in {<<"login">>, <<"register">>} : pathname = route
    IN  IF user = NULL /\ isProtectedRoute
        THEN Redirect(<<"login">>, pathname)
        ELSE IF user # NULL /\ isAuthRoute
        THEN Redirect(<<>>, NULL)
        ELSE PassThrough

\* The segments of the pathnames requested.
Segments == {"chat", "chatroom", "login", "register", "api", "admin", "c1", ""}

Pathnames == UNION {[1..n -> Segments] : n \in 0..MaxSegments}

InitMiddleware ==
    /\ db = [c \in ChatIds |-> NoContext]
    /\ turn = [route |-> "none"]
    /\ \E user \in {NULL, "u1"}, pathname \in Pathnames :
         /\ \A i \in 1..(Len(pathname) - 1) : pathname[i] # ""
         /\ call = [fn |-> "middleware", done |-> FALSE,
                    user |-> user, pathname |-> pathname]

\* A request: the middleware runs when the matcher matches the pathname.
CallMiddleware ==
    /\ call.fn = "middleware"
    /\ ~call.done
    /\ call' = [fn |-> "middleware", done |-> TRUE,
                user |-> call.user, pathname |-> call.pathname,
                result |-> IF matcher(call.pathname)
                           THEN middleware(call.user, call.pathname)
                           ELSE PassThrough]
    /\ UNCHANGED <<db, turn>>

NextMiddleware == CallMiddleware

SpecMiddleware == InitMiddleware /\ [][NextMiddleware]_vars

\* C17: a request without a user for "/", "/chat" or a path under "/chat/"
\* is redirected to /login with redirectTo the pathname requested, and a
\* request with a user for "/login" or "/register" is redirected to "/".
C17_ProtectedNeedsUser ==
    (call.fn = "middleware" /\ call.done) =>
        LET pathname == call.pathname
            protected == \/ pathname = <<>>
                         \/ pathname[1] = "chat" /\ Len(pathname) = 1
                         \/ pathname[1] = "chat" /\ Len(pathname) > 1
        IN  /\ (call.user = NULL /\ protected) =>
                  call.result = [kind |-> "redirect", pathname |-> <<"login">>,
                                 redirectTo |-> pathname]
            /\ (call.user # NULL /\ pathname \in {<<"login">>, <<"register">>}) =>
                  call.result = [kind |-> "redirect", pathname |-> <<>>,
                                 redirectTo |-> NULL]

\* A request without a user for /chat/c1: redirected to /login, with
\* redirectTo /chat/c1.
C17_Witness ==
    /\ call.fn = "middleware" /\ call.done
    /\ call.user = NULL
    /\ call.pathname = <<"chat", "c1">>
    /\ call.result.kind = "redirect"
    /\ call.result.pathname = <<"login">>
    /\ call.result.redirectTo = <<"chat", "c1">>


(***************************************************************************)
(* app/api/chats/[chatId]/route.ts and .../messages/route.ts.  Under       *)
(* SpecChats db holds the chats table (a row per chat id, or none) and the *)
(* number of rows of the messages table for each chat id.                  *)
(***************************************************************************)

\* The most messages a chat holds.
MaxMessages == 2

ChatRowIds == {"c1", "c2"}

Users == {"u1", "u2"}

\* No row of chats with the id.
NoChat == [missing |-> TRUE]

\* The body of a response that carries no row: an error, or { success }.
Plain(kind) == [kind |-> kind]

\* The rows of chats with id = chatId and user_id = userId: the chat id, or
\* nothing.
OwnRows(chats, chatId, userId) ==
    {c \in ChatRowIds : c = chatId /\ chats[c] # NoChat /\ chats[c].user_id = userId}

verifyChatOwnershipAnyUser(chats, chatId, userId, outcome) ==
    outcome = "ok" /\ \E c \in ChatRowIds : c = chatId /\ chats[c] # NoChat

\* verifyChatOwnership(chatId, userId): a failed query gives no chat.
verifyChatOwnership(chats, chatId, userId, outcome) ==
    outcome = "ok" /\ OwnRows(chats, chatId, userId) # {}

\* What a handler does: the response and the tables after it.
Outcome(status, body, chats, messages) ==
    [status |-> status, body |-> body, chats |-> chats, messages |-> messages]

\* GET /api/chats/[chatId]
GetChat(t, user, chatId, outcome) ==
    IF user = NULL THEN Outcome(401, Plain("Unauthorized"), t.chats, t.messages)
    ELSE IF outcome = "throws"
    THEN Outcome(500, Plain("Failed to fetch chat"), t.chats, t.messages)
    ELSE IF outcome = "error" \/ OwnRows(t.chats, chatId, user) = {}
    THEN Outcome(404, Plain("Chat not found"), t.chats, t.messages)
    ELSE Outcome(200, [kind |-> "chat", id |-> chatId, row |-> t.chats[chatId]],
                 t.chats, t.messages)

\* PATCH /api/chats/[chatId] with a body { title, visibility }
PatchChat(t, user, chatId, title, visibility, outcome) ==
    IF user = NULL THEN Outcome(401, Plain("Unauthorized"), t.chats, t.messages)
    ELSE IF outcome = "throws"
    THEN Outcome(500, Plain("Failed to update chat"), t.chats, t.messages)
    ELSE IF outcome = "error" \/ OwnRows(t.chats, chatId, user) = {}
    THEN Outcome(404, Plain("Chat not found"), t.chats, t.messages)
    ELSE LET updated == [t.chats[chatId] EXCEPT
                            !.title = IF Truthy(title) THEN title ELSE @,
                            !.visibility = IF Truthy(visibility) THEN visibility ELSE @,
                            !.updated_at = "later"]
         IN  Outcome(200, [kind |-> "chat", id |-> chatId, row |-> updated],
                     [t.chats EXCEPT ![chatId] = updated], t.messages)

\* DELETE /api/chats/[chatId]: the messages of the chat go with it (CASCADE).
DeleteChat(t, user, chatId, outcome) ==
    IF user = NULL THEN Outcome(401, Plain("Unauthorized"), t.chats, t.messages)
    ELSE IF outcome # "ok"
    THEN Outcome(500, Plain("Failed to delete chat"), t.chats, t.messages)
    ELSE LET rows == OwnRows(t.chats, chatId, user)
         IN  Outcome(200, Plain("success"),
                     [c \in ChatRowIds |-> IF c \in rows THEN NoChat ELSE t.chats[c]],
                     [c \in ChatRowIds |-> IF c \in rows THEN 0 ELSE t.messages[c]])

\* GET /api/chats/[chatId]/messages
GetMessages(t, user, chatId, verifyOutcome, outcome) ==
    IF user = NULL THEN Outcome(401, Plain("Unauthorized"), t.chats, t.messages)
    ELSE IF ~verifyChatOwnership(t.chats, chatId, user, verifyOutcome)
    THEN Outcome(404, Plain("Chat not found"), t.chats, t.messages)
    ELSE IF outcome # "ok"
    THEN Outcome(500, Plain("Failed to fetch messages"), t.chats, t.messages)
    ELSE Outcome(200, [kind |-> "messages", id |-> chatId, n |-> t.messages[chatId]],
                 t.chats, t.messages)

\* POST /api/chats/[chatId]/messages with a body { role, content }: the
\* message is inserted and updated_at of the chat with the id is set.
PostMessage(t, user, chatId, complete, verifyOutcome, outcome) ==
    IF user = NULL THEN Outcome(401, Plain("Unauthorized"), t.chats, t.messages)
    ELSE IF ~verifyChatOwnership(t.chats, chatId, user, verifyOutcome)
    THEN Outcome(404, Plain("Chat not found"), t.chats, t.messages)
    ELSE IF outcome = "throws"
    THEN Outcome(500, Plain("Failed to create message"), t.chats, t.messages)
    ELSE IF ~complete
    THEN Outcome(400, Plain("Role and content are required"), t.chats, t.messages)
    ELSE IF outcome = "error"
    THEN Outcome(500, Plain("Failed to create message"), t.chats, t.messages)
    ELSE Outcome(201, [kind |-> "message", id |-> chatId, n |-> t.messages[chatId] + 1],
                 [c \in ChatRowIds |->
                     IF c = chatId /\ t.chats[c] # NoChat
                     THEN [t.chats[c] EXCEPT !.updated_at = "later"]
                     ELSE t.chats[c]],
                 [t.messages EXCEPT ![chatId] = @ + 1])

\* DELETE /api/chats/[chatId]/messages
DeleteMessages(t, user, chatId, verifyOutcome, outcome) ==
    IF user = NULL THEN Outcome(401, Plain("Unauthorized"), t.chats, t.messages)
    ELSE IF ~verifyChatOwnership(t.chats, chatId, user, verifyOutcome)
    THEN Outcome(404, Plain("Chat not found"), t.chats, t.messages)
    ELSE IF outcome # "ok"
    THEN Outcome(500, Plain("Failed to delete messages"), t.chats, t.messages)
    ELSE Outcome(200, Plain("success"), t.chats, [t.messages EXCEPT ![chatId] = 0])

\* Two chats, one of each user, with a message each.
InitChats ==
    /\ db = [chats |-> [c \in ChatRowIds |->
                          [user_id |-> IF c = "c1" THEN "u1" ELSE "u2",
                           title |-> "New Chat", visibility |-> "private",
                           updated_at |-> "created"]],
             messages |-> [c \in ChatRowIds |-> 1]]
    /\ turn = [route |-> "none"]
    /\ call = NoCall

\* A request handled: the response on record, the tables as the handler
\* leaves them.
Handle(route, method, user, chatId, r) ==
    /\ turn' = [route |-> route, method |-> method, user |-> user, chatId |-> chatId,
                status |-> r.status, body |-> r.body]
    /\ db' = [chats |-> r.chats, messages |-> r.messages]
    /\ UNCHANGED call

RequestGetChat ==
    \E user \in Users \cup {NULL}, chatId \in ChatRowIds, outcome \in {"ok", "error", "throws"} :
       Handle("chats", "GET", user, chatId, GetChat(db, user, chatId, outcome))

RequestPatchChat ==
    \E user \in Users \cup {NULL}, chatId \in ChatRowIds, title \in {NULL, "Goa"},
       visibility \in {NULL, "public"}, outcome \in {"ok", "error", "throws"} :
       Handle("chats", "PATCH", user, chatId,
              PatchChat(db, user, chatId, title, visibility, outcome))

RequestDeleteChat ==
    \E user \in Users \cup {NULL}, chatId \in ChatRowIds, outcome \in {"ok", "error"} :
       Handle("chats", "DELETE", user, chatId, DeleteChat(db, user, chatId, outcome))

RequestGetMessages ==
    \E user \in Users \cup {NULL}, chatId \in ChatRowIds,
       verifyOutcome \in {"ok", "error"}, outcome \in {"ok", "error"} :
       Handle("messages", "GET", user, chatId,
              GetMessages(db, user, chatId, verifyOutcome, outcome))

RequestPostMessage ==
    \E user \in Users \cup {NULL}, chatId \in ChatRowIds, complete \in BOOLEAN,
       verifyOutcome \in {"ok", "error"}, outcome \in {"ok", "error", "throws"} :
       /\ db.messages[chatId] < MaxMessages
       /\ Handle("messages", "POST", user, chatId,
                 PostMessage(db, user, chatId, complete, verifyOutcome, outcome))

RequestDeleteMessages ==
    \E user \in Users \cup {NULL}, chatId \in ChatRowIds,
       verifyOutcome \in {"ok", "error"}, outcome \in {"ok", "error"} :
       Handle("messages", "DELETE", user, chatId,
              DeleteMessages(db, user, chatId, verifyOutcome, outcome))

NextChats ==
    \/ RequestGetChat \/ RequestPatchChat \/ RequestDeleteChat
    \/ RequestGetMessages \/ RequestPostMessage \/ RequestDeleteMessages

SpecChats == InitChats /\ [][NextChats]_vars

\* C18: a request without a user is answered 401; and for every chat of
\* another user than the one of the request, the chat and its messages are
\* as they were, the response carries no chat and no message, and the
\* messages methods answer 404.
C18_OnlyOwnChats ==
    [][turn'.route \in {"chats", "messages"} =>
          /\ turn'.user = NULL => (turn'.status = 401 /\ db' = db)
          /\ \A c \in ChatRowIds :
                (db.chats[c] # NoChat /\ db.chats[c].user_id # turn'.user) =>
                   /\ db'.chats[c] = db.chats[c]
                   /\ db'.messages[c] = db.messages[c]
                   /\ turn'.chatId = c =>
                         /\ turn'.body.kind \notin {"chat", "messages", "message"}
                         /\ (turn'.route = "messages" /\ turn'.user # NULL) =>
                               turn'.status = 404]_vars

\* The user u1 asked to delete the messages of the chat of u2: answered 404,
\* and the messages are still there.
C18_Witness ==
    /\ turn.route = "messages"
    /\ turn.method = "DELETE"
    /\ turn.user = "u1"
    /\ turn.chatId = "c2"
    /\ turn.status = 404
    /\ db.chats["c2"].user_id = "u2"
    /\ db.messages["c2"] > 0

-----------------------------------------------------------------------------
\* app/api/webhooks/stripe/route.ts: the Stripe webhook.

BookingIds == {"b1", "b2"}

\* bookingId of the event's metadata: absent, a booking, or no booking's id.
MetadataBookingIds == BookingIds \cup {NULL, "b9"}

EventTypes ==
    {"payment_intent.succeeded", "payment_intent.payment_failed", "charge.refunded",
     "customer.created"}

\* stripeAPI.constructWebhookEvent: throws unless Stripe is configured and
\* the signature is that of the payload (TRUE: the event is returned).
constructWebhookEventUnchecked(signature, configured) == TRUE

constructWebhookEvent(signature, configured) == configured /\ signature = "good"

\* supabase.from("bookings").update(updates).eq("id", bookingId); the
\* error of the update is not looked at.
UpdateBooking(bookings, bookingId, payment_status, status, payment_id, outcome) ==
    [b \in BookingIds |->
        IF b = bookingId /\ outcome = "ok"
        THEN [payment_status |-> payment_status,
              status |-> IF status = NULL THEN bookings[b].status ELSE status,
              payment_id |-> IF payment_id = NULL THEN bookings[b].payment_id ELSE payment_id,
              updated_at |-> "later"]
        ELSE bookings[b]]

WebhookResult(status, bookings) == [status |-> status, bookings |-> bookings]

\* POST of the webhook; outcome "throws": the update rejects.
stripeWebhook(bookings, signature, event, configured, outcome) ==
    IF signature = NULL THEN WebhookResult(400, bookings)
    ELSE IF ~constructWebhookEvent(signature, configured) THEN WebhookResult(400, bookings)
    ELSE IF event.bookingId # NULL /\ event.type # "customer.created" /\ outcome = "throws"
    THEN WebhookResult(500, bookings)
    ELSE IF event.bookingId = NULL THEN WebhookResult(200, bookings)
    ELSE IF event.type = "payment_intent.succeeded"
    THEN WebhookResult(200, UpdateBooking(bookings, event.bookingId, "paid", "confirmed",
                                          event.id, outcome))
    ELSE IF event.type = "payment_intent.payment_failed"
    THEN WebhookResult(200, UpdateBooking(bookings, event.bookingId, "failed", NULL,
                                          NULL, outcome))
    ELSE IF event.type = "charge.refunded"
    THEN WebhookResult(200, UpdateBooking(bookings, event.bookingId, "refunded", "cancelled",
                                          NULL, outcome))
    ELSE WebhookResult(200, bookings)

InitWebhook ==
    /\ db = [b \in BookingIds |->
                [payment_status |-> "pending", status |-> "pending",
                 payment_id |-> NULL, updated_at |-> "created"]]
    /\ turn = [route |-> "none"]
    /\ call = NoCall

PostWebhook ==
    \E signature \in {NULL, "good", "bad"}, type \in EventTypes,
       bookingId \in MetadataBookingIds, id \in {"pi_1"},
       configured \in BOOLEAN, outcome \in {"ok", "error", "throws"} :
       LET event == [type |-> type, bookingId |-> bookingId, id |-> id]
           r == stripeWebhook(db, signature, event, configured, outcome)
       IN  /\ turn' = [route |-> "webhook", signature |-> signature,
                       verified |-> signature # NULL /\ configured /\ signature = "good",
                       type |-> type, bookingId |-> bookingId, id |-> id,
                       status |-> r.status]
           /\ db' = r.bookings
           /\ UNCHANGED call

NextWebhook == PostWebhook

SpecWebhook == InitWebhook /\ [][NextWebhook]_vars

\* C19: a webhook request without a signature or with one that fails
\* verification is answered 400 and changes no booking; a verified event
\* changes no booking but the one of its metadata, and that one to paid and
\* confirmed (payment succeeded), to payment failed with its status kept
\* (payment failed), or to refunded and cancelled (charge refunded); an
\* event of another type changes nothing.
C19_VerifiedEventsOnly ==
    [][turn'.route = "webhook" =>
          /\ ~turn'.verified => (turn'.status = 400 /\ db' = db)
          /\ \A b \in BookingIds :
                db'[b] # db[b] =>
                   /\ turn'.verified
                   /\ b = turn'.bookingId
                   /\ \/ /\ turn'.type = "payment_intent.succeeded"
                         /\ db'[b].payment_status = "paid"
                         /\ db'[b].status = "confirmed"
                      \/ /\ turn'.type = "payment_intent.payment_failed"
                         /\ db'[b].payment_status = "failed"
                         /\ db'[b].status = db[b].status
                      \/ /\ turn'.type = "charge.refunded"
                         /\ db'[b].payment_status = "refunded"
                         /\ db'[b].status = "cancelled"]_vars

\* A paid booking and a request for its refund whose signature failed
\* verification: answered 400, the booking still paid and confirmed.
C19_Witness ==
    /\ turn.route = "webhook"
    /\ turn.signature = "bad"
    /\ turn.type = "charge.refunded"
    /\ turn.bookingId = "b1"
    /\ turn.status = 400
    /\ db["b1"].payment_status = "paid"
    /\ db["b1"].status = "confirmed"

-----------------------------------------------------------------------------
\* components/chat/Chat.tsx: sending a message and stopping the generation.
\* The component's state is held in turn: pc is the await at which
\* handleSendMessage stands, ref is abortControllerRef.current, signal the
\* signal handed to the chat request of the send in progress, stopped
\* whether handleStopGeneration ran since the send began.

MaxSends == 3

ChatState(pc, chatId, messages, isLoading, ref, signal, stopped, sends) ==
    [route |-> "Chat", pc |-> pc, chatId |-> chatId, messages |-> messages,
     isLoading |-> isLoading, ref |-> ref, signal |-> signal, stopped |-> stopped,
     sends |-> sends]

InitComponent ==
    /\ db = <<>>
    /\ turn \in {ChatState("idle", chatId, <<>>, FALSE, NULL, "none", FALSE, 0) :
                    chatId \in {NULL, "c1"}}
    /\ call = NoCall

\* Lines 123-150 up to the await of the chat request: the controller is
\* created and its signal handed to fetch.
BeginChatRequest(t, chatId) == [t EXCEPT !.pc = "request", !.chatId = chatId, !.ref = "controller", !.signal = "live"]

\* The finally of lines 200-203.
Finally(t) == [t EXCEPT !.pc = "idle", !.ref = NULL, !.isLoading = FALSE]

\* handleSendMessage up to its first await: the user message is shown, and
\* without a chat the chat is created first.
handleSendMessage ==
    /\ turn.pc = "idle"
    /\ ~turn.isLoading
    /\ turn.sends < MaxSends
    /\ LET shown == [turn EXCEPT !.messages = Append(@, "user"), !.isLoading = TRUE,
                                 !.stopped = FALSE, !.sends = @ + 1]
       IN  turn' = IF turn.chatId = NULL
                   THEN [shown EXCEPT !.pc = "create"]
                   ELSE BeginChatRequest(shown, turn.chatId)
    /\ UNCHANGED <<db, call>>

\* The await of POST /api/chats returns (lines 100-121).
ChatCreated ==
    /\ turn.pc = "create"
    /\ \E outcome \in {"ok", "not ok", "throws"} :
          turn' = CASE outcome = "ok" -> BeginChatRequest(turn, "c1")
                    [] outcome = "not ok" -> BeginChatRequest(turn, NULL)
                    [] OTHER -> [turn EXCEPT !.pc = "idle", !.isLoading = FALSE]
    /\ UNCHANGED <<db, call>>

\* The await of POST /api/chat/v3 returns (line 138): with the signal
\* aborted it rejects with an AbortError.
ChatResponded ==
    /\ turn.pc = "request"
    /\ \E outcome \in {"ok", "throws"} :
          turn' = IF turn.signal = "aborted" THEN Finally(turn)
                  ELSE IF outcome = "ok" THEN [turn EXCEPT !.pc = "json"]
                  ELSE Finally([turn EXCEPT !.messages = Append(@, "error")])
    /\ UNCHANGED <<db, call>>

\* The await of response.json() returns (line 152), the reply is shown
\* (lines 154-163).
ReplyRead ==
    /\ turn.pc = "json"
    /\ \E outcome \in {"ok", "throws"} :
          turn' = IF turn.signal = "aborted" THEN Finally(turn)
                  ELSE IF outcome = "ok"
                  THEN Finally([turn EXCEPT !.messages = Append(@, "assistant")])
                  ELSE Finally([turn EXCEPT !.messages = Append(@, "error")])
    /\ UNCHANGED <<db, call>>

\* handleStopGeneration while a send is in progress.
handleStopGeneration ==
    /\ turn.pc # "idle"
    /\ turn' = [turn EXCEPT !.signal = IF turn.ref # NULL THEN "aborted" ELSE @,
                            !.ref = NULL, !.isLoading = FALSE, !.stopped = TRUE]
    /\ UNCHANGED <<db, call>>

NextComponent ==
    \/ handleSendMessage
    \/ ChatCreated
    \/ ChatResponded
    \/ ReplyRead
    \/ handleStopGeneration

SpecComponent == InitComponent /\ [][NextComponent]_vars

\* C20: while a send that the user stopped is in progress, the message list
\* stays as it is: neither an assistant reply nor an error message is
\* appended by that send.
C20_StoppedSendAppendsNothing ==
    [][(turn.pc # "idle" /\ turn.stopped) => turn'.messages = turn.messages]_vars

=============================================================================
